---------------------------- MODULE Spec2Model ----------------------------
(***************************************************************************)
(* Model of metadatafetcher.py: the enrichment orchestrator process_files, *)
(* the three caches, the genre resolver and the genre normalizer, and the  *)
(* two other modes, strip_metadata_from_files and add_album_art_only.      *)
(*                                                                         *)
(* Text is modelled as a sequence of one-character strings, so that        *)
(* splitting, lower-casing, substring search and length are computed the   *)
(* way the Python code computes them.  Python's None is the value None.    *)
(***************************************************************************)
EXTENDS Integers, Sequences, FiniteSets, TLC

\* ------------------------------------------------------------------ bounds
\* Number of .mp3 files found under the music directory.
NumFiles == 2
\* Number of times the program is started over the same directory.
MaxRuns == 2


\* ------------------------------------------------------------------- text
None == <<"<None>">>

\* Python truthiness of an optional string: neither None nor "".
Truthy(s) == s # None /\ s # <<>>

UpperAlpha == <<"A","B","C","D","E","F","G","H","I","J","K","L","M",
                "N","O","P","Q","R","S","T","U","V","W","X","Y","Z">>
LowerAlpha == <<"a","b","c","d","e","f","g","h","i","j","k","l","m",
                "n","o","p","q","r","s","t","u","v","w","x","y","z">>

IsUpper(c) == \E i \in 1..26 : UpperAlpha[i] = c
IsLower(c) == \E i \in 1..26 : LowerAlpha[i] = c
IsCased(c) == IsUpper(c) \/ IsLower(c)

LowerChar(c) ==
  IF IsUpper(c) THEN LowerAlpha[CHOOSE i \in 1..26 : UpperAlpha[i] = c] ELSE c
UpperChar(c) ==
  IF IsLower(c) THEN UpperAlpha[CHOOSE i \in 1..26 : LowerAlpha[i] = c] ELSE c

\* str.lower()
Lower(s) == [i \in 1..Len(s) |-> LowerChar(s[i])]

\* str.title(): a cased character is upper-cased when the character before
\* it is not cased (or there is none), lower-cased otherwise.
Title(s) ==
  [i \in 1..Len(s) |->
     IF i = 1 \/ ~IsCased(s[i-1]) THEN UpperChar(s[i]) ELSE LowerChar(s[i])]

RECURSIVE StripLeft(_)
StripLeft(s) ==
  IF s # <<>> /\ Head(s) = " " THEN StripLeft(Tail(s)) ELSE s

RECURSIVE StripRight(_)
StripRight(s) ==
  IF s # <<>> /\ s[Len(s)] = " " THEN StripRight(SubSeq(s, 1, Len(s) - 1)) ELSE s

\* str.strip()
Strip(s) == StripRight(StripLeft(s))

\* str.replace(c, '') for a character c.
Without(s, c) == SelectSeq(s, LAMBDA x : x # c)

\* `s.split(c)[0] if c in s else s`: the text before the first c.
BeforeFirst(s, c) ==
  IF \E n \in 1..Len(s) : s[n] = c
  THEN SubSeq(s, 1, (CHOOSE n \in 1..Len(s) :
                       s[n] = c /\ \A m \in 1..(n - 1) : s[m] # c) - 1)
  ELSE s

\* Python's `k in l` for strings: k occurs in l as a contiguous substring.
Contains(l, k) ==
  \E i \in 0..(Len(l) - Len(k)) : \A j \in 1..Len(k) : l[i + j] = k[j]

\* Position of the first occurrence of k in s at or after 1, 0 when absent.
Find(s, k) ==
  IF Contains(s, k)
  THEN CHOOSE i \in 1..(Len(s) - Len(k) + 1) :
         /\ \A j \in 1..Len(k) : s[i + j - 1] = k[j]
         /\ \A h \in 1..(i - 1) : \E j \in 1..Len(k) : s[h + j - 1] # k[j]
  ELSE 0

\* The delimiter " - " of the "Artist - Title" filename convention.
Delim == <<" ", "-", " ">>

\* A split at the last delimiter instead of the first one.
SplitLast(s) ==
  IF ~Contains(s, Delim) THEN << s >>
  ELSE LET At(n) == \A j \in 1..Len(Delim) : s[n + j - 1] = Delim[j]
           p == CHOOSE n \in 1..(Len(s) - Len(Delim) + 1) :
                  At(n) /\ \A h \in (n + 1)..(Len(s) - Len(Delim) + 1) : ~At(h)
       IN << SubSeq(s, 1, p - 1), SubSeq(s, p + Len(Delim), Len(s)) >>

\* str.split(' - ', 1): one part when the delimiter is absent, else the text
\* before the first delimiter and everything after it.
SplitOnce(s) ==
  LET p == Find(s, Delim) IN
  IF p = 0 THEN << s >>
  ELSE << SubSeq(s, 1, p - 1), SubSeq(s, p + Len(Delim), Len(s)) >>

\* -------------------------------------------------------- genre normalizer
mapping ==
  <<
    [keys |-> << <<"h", "i", "p", " ", "h", "o", "p">>,
                 <<"h", "i", "p", "-", "h", "o", "p">>,
                 <<"r", "a", "p">>,
                 <<"t", "r", "a", "p">> >>,
     canonical |-> <<"H", "i", "p", "-", "H", "o", "p">>],
    [keys |-> << <<"r", "&", "b">>,
                 <<"r", "n", "b">>,
                 <<"n", "e", "o", "-", "s", "o", "u", "l">> >>,
     canonical |-> <<"R", "&", "B">>],
    [keys |-> << <<"p", "o", "p">>,
                 <<"s", "y", "n", "t", "h", "p", "o", "p">>,
                 <<"e", "l", "e", "c", "t", "r", "o", "p", "o", "p">>,
                 <<"d", "a", "n", "c", "e", " ", "p", "o", "p">> >>,
     canonical |-> <<"P", "o", "p">>],
    [keys |-> << <<"m", "e", "t", "a", "l">> >>,
     canonical |-> <<"M", "e", "t", "a", "l">>],
    [keys |-> << <<"p", "u", "n", "k">> >>,
     canonical |-> <<"P", "u", "n", "k">>],
    [keys |-> << <<"i", "n", "d", "i", "e">> >>,
     canonical |-> <<"I", "n", "d", "i", "e">>],
    [keys |-> << <<"r", "o", "c", "k">>,
                 <<"a", "l", "t", " ", "r", "o", "c", "k">>,
                 <<"c", "l", "a", "s", "s", "i", "c", " ", "r", "o", "c", "k">>,
                 <<"h", "a", "r", "d", " ", "r", "o", "c", "k">> >>,
     canonical |-> <<"R", "o", "c", "k">>],
    [keys |-> << <<"e", "d", "m">>,
                 <<"e", "l", "e", "c", "t", "r", "o", "n", "i", "c">>,
                 <<"h", "o", "u", "s", "e">>,
                 <<"t", "e", "c", "h", "n", "o">>,
                 <<"t", "r", "a", "n", "c", "e">>,
                 <<"d", "u", "b", "s", "t", "e", "p">>,
                 <<"d", "r", "u", "m", " ", "a", "n", "d", " ", "b", "a", "s", "s">>,
                 <<"d", "n", "b">> >>,
     canonical |-> <<"E", "l", "e", "c", "t", "r", "o", "n", "i", "c">>],
    [keys |-> << <<"c", "l", "a", "s", "s", "i", "c", "a", "l">>,
                 <<"o", "r", "c", "h", "e", "s", "t", "r", "a">>,
                 <<"s", "y", "m", "p", "h", "o", "n", "y">>,
                 <<"o", "p", "e", "r", "a">>,
                 <<"c", "h", "o", "i", "r">>,
                 <<"c", "h", "o", "r", "a", "l">>,
                 <<"b", "a", "r", "o", "q", "u", "e">>,
                 <<"r", "o", "m", "a", "n", "t", "i", "c">> >>,
     canonical |-> <<"C", "l", "a", "s", "s", "i", "c", "a", "l">>],
    [keys |-> << <<"j", "a", "z", "z">>,
                 <<"b", "e", "b", "o", "p">>,
                 <<"s", "w", "i", "n", "g">>,
                 <<"f", "u", "s", "i", "o", "n">> >>,
     canonical |-> <<"J", "a", "z", "z">>],
    [keys |-> << <<"b", "l", "u", "e", "s">> >>,
     canonical |-> <<"B", "l", "u", "e", "s">>],
    [keys |-> << <<"c", "o", "u", "n", "t", "r", "y">> >>,
     canonical |-> <<"C", "o", "u", "n", "t", "r", "y">>],
    [keys |-> << <<"f", "o", "l", "k">> >>,
     canonical |-> <<"F", "o", "l", "k">>],
    [keys |-> << <<"l", "a", "t", "i", "n">>,
                 <<"r", "e", "g", "g", "a", "e", "t", "o", "n">>,
                 <<"s", "a", "l", "s", "a">>,
                 <<"b", "a", "c", "h", "a", "t", "a">>,
                 <<"c", "u", "m", "b", "i", "a">>,
                 <<"t", "a", "n", "g", "o">> >>,
     canonical |-> <<"L", "a", "t", "i", "n">>],
    [keys |-> << <<"a", "f", "r", "o", "b", "e", "a", "t", "s">>,
                 <<"a", "f", "r", "o", "b", "e", "a", "t">>,
                 <<"a", "f", "r", "o">> >>,
     canonical |-> <<"A", "f", "r", "o", "b", "e", "a", "t", "s">>],
    [keys |-> << <<"k", "-", "p", "o", "p">>,
                 <<"k", "p", "o", "p">> >>,
     canonical |-> <<"K", "-", "P", "o", "p">>],
    [keys |-> << <<"j", "-", "p", "o", "p">>,
                 <<"j", "p", "o", "p">> >>,
     canonical |-> <<"J", "-", "P", "o", "p">>],
    [keys |-> << <<"s", "o", "u", "n", "d", "t", "r", "a", "c", "k">>,
                 <<"s", "c", "o", "r", "e">> >>,
     canonical |-> <<"S", "o", "u", "n", "d", "t", "r", "a", "c", "k">>],
    [keys |-> << <<"l", "o", "-", "f", "i">>,
                 <<"l", "o", "f", "i">> >>,
     canonical |-> <<"L", "o", "-", "F", "i">>],
    [keys |-> << <<"a", "m", "b", "i", "e", "n", "t">> >>,
     canonical |-> <<"A", "m", "b", "i", "e", "n", "t">>],
    [keys |-> << <<"s", "o", "u", "l">> >>,
     canonical |-> <<"S", "o", "u", "l">>],
    [keys |-> << <<"g", "o", "s", "p", "e", "l">> >>,
     canonical |-> <<"G", "o", "s", "p", "e", "l">>],
    [keys |-> << <<"r", "e", "g", "g", "a", "e">>,
                 <<"d", "a", "n", "c", "e", "h", "a", "l", "l">> >>,
     canonical |-> <<"R", "e", "g", "g", "a", "e">>],
    [keys |-> << <<"w", "o", "r", "l", "d">> >>,
     canonical |-> <<"W", "o", "r", "l", "d">>]
  >>

RECURSIVE FirstMatch(_, _)
\* The `for keys, canonical in mapping` loop from row i on: the canonical name
\* of the first row one of whose keywords occurs in l, None when no row does.
FirstMatch(l, i) ==
  IF i > Len(mapping) THEN None
  ELSE IF \E n \in 1..Len(mapping[i].keys) : Contains(l, mapping[i].keys[n])
       THEN mapping[i].canonical
       ELSE FirstMatch(l, i + 1)

_normalize_genre_label(label) ==
  LET hit == FirstMatch(Lower(label), 1) IN
  IF hit # None THEN hit ELSE Title(label)


\* -------------------------------------------------------------- the world
\* The artists the search service knows, by id.
ArtistIds == {<<"a", "1">>, <<"a", "2">>}

Queen == [name |-> <<"Q">>, id |-> <<"a", "1">>]
Bowie == [name |-> <<"D">>, id |-> <<"a", "2">>]

\* TrackRecords the search service may answer with.  wellformed = FALSE is a
\* payload that lacks a key the orchestrator indexes (a KeyError there).
TrackFull ==
  [name |-> <<"B">>, artists |-> <<Queen>>,
   album |-> [name |-> <<"N">>, artists |-> <<Queen>>, images |-> <<"url1">>,
              total_tracks |-> <<"9">>,
              release_date |-> <<"1","9","7","5","-","1","0">>],
   track_number |-> <<"1">>, wellformed |-> TRUE]
TrackDuo ==
  [name |-> <<"U">>, artists |-> <<Queen, Bowie>>,
   album |-> [name |-> <<"H">>, artists |-> <<Queen>>, images |-> <<>>,
              total_tracks |-> <<"5">>,
              release_date |-> <<"1","9","8","1">>],
   track_number |-> <<"2">>, wellformed |-> TRUE]
TrackBroken ==
  [name |-> None, artists |-> <<>>,
   album |-> [name |-> None, artists |-> <<>>, images |-> <<>>,
              total_tracks |-> <<>>, release_date |-> <<>>],
   track_number |-> <<>>, wellformed |-> FALSE]
\* The longest title the art search sends.
MaxTitleLen == 120

\* A track without images whose title is quoted and, without the quotes, one
\* character longer than MaxTitleLen.
LongTitle == <<"\"">> \o [n \in 1..(MaxTitleLen + 1) |-> "y"] \o <<"\"">>
TrackLong ==
  [name |-> LongTitle, artists |-> <<Queen, Bowie>>,
   album |-> [name |-> <<"L">>, artists |-> <<Queen>>, images |-> <<>>,
              total_tracks |-> <<"3">>,
              release_date |-> <<"1","9","9","0">>],
   track_number |-> <<"3">>, wellformed |-> TRUE]
NoTrack == TrackBroken
Tracks == {TrackFull, TrackDuo, TrackBroken}

\* What one sp.search call can do: raise, or return a response whose
\* tracks.items list is empty or holds one track (limit=1).
SearchOutcomes ==
  {[raises |-> TRUE, items |-> <<>>], [raises |-> FALSE, items |-> <<>>]}
  \cup {[raises |-> FALSE, items |-> <<t>>] : t \in Tracks}

\* Filename stems of the .mp3 files: "x", "Q - B" and " - B".
StemPlain == <<"x">>
StemPair  == <<"Q", " ", "-", " ", "B">>
StemNoArtist == <<" ", "-", " ", "B">>
\* "Q - B - C": the delimiter twice.
StemTwice == <<"Q", " ", "-", " ", "B", " ", "-", " ", "C">>
Stems == {StemPlain, StemPair, StemNoArtist, StemTwice}

\* ------------------------------------------------------- the tag container
\* An ID3 container: hdr is whether the file has an ID3 header at all; a text
\* frame is None when absent, else its first text; TXXX maps a description to
\* its text; APIC maps the description of an attached picture (its HashKey is
\* "APIC:" and the description) to the picture, COMM is the set of comments.
TxxxDescs == {"Mood", "Danceability", "Popularity"}
EmptyID3 ==
  [hdr |-> FALSE, TPE1 |-> None, TIT2 |-> None, TALB |-> None, TPE2 |-> None,
   TCON |-> None, TDRC |-> None, TRCK |-> None, TBPM |-> None, TKEY |-> None,
   USLT |-> None, TXXX |-> [d \in TxxxDescs |-> None],
   APIC |-> [d \in {} |-> "none"], COMM |-> {}]

\* Tag states a file can be in before the program runs.
Untagged == EmptyID3
TaggedBoth ==
  [EmptyID3 EXCEPT !.hdr = TRUE, !.TPE1 = <<"Q">>, !.TIT2 = <<"B">>]
TaggedArtistOnly ==
  [EmptyID3 EXCEPT !.hdr = TRUE, !.TPE1 = <<"Z">>]
TaggedEmptyTitle ==
  [EmptyID3 EXCEPT !.hdr = TRUE, !.TPE1 = <<"Z">>, !.TIT2 = <<>>]
TaggedRich ==
  [EmptyID3 EXCEPT !.hdr = TRUE, !.TPE1 = <<"Q">>, !.TIT2 = <<"B">>,
                   !.TCON = <<"o","l","d">>, !.USLT = <<"l","a">>,
                   !.APIC = [d \in {"Front"} |-> "oldpic"], !.COMM = {"c1"}]
\* A file whose picture has the description this program gives its own.
TaggedCover ==
  [TaggedBoth EXCEPT !.APIC = [d \in {"Cover"} |-> "oldcover"]]
TagStates == {Untagged, TaggedBoth, TaggedArtistOnly, TaggedEmptyTitle, TaggedRich}

\* ----------------------------------------------------------------- options
\* The command-line flags and the optional credentials of one installation.
Options ==
  [use_gemini : BOOLEAN, fetch_lyrics : BOOLEAN, force_album_art : BOOLEAN,
   no_album_art : BOOLEAN, keep_comments : BOOLEAN, has_gemini_key : BOOLEAN,
   lastfm_key : BOOLEAN, no_cache : BOOLEAN]

\* --force-art and --no-art are mutually exclusive at the command line.
ValidOptions == {o \in Options : ~(o.force_album_art /\ o.no_album_art)}

VARIABLES
  world,         \* what the remote services and the file system can do
  opts,          \* the flags and optional credentials of this installation
  keys_ok,       \* whether the three required credentials are set
  stem,          \* file -> filename stem
  disk,          \* file -> its tag container on durable storage
  ledger,        \* processed_log.json: the sequence of inserted paths
  spotify_cache,               \* search cache, in memory
  spotify_cache_file,          \* spotify_cache.json
  spotify_artist_genre_cache,  \* artist id -> genre list
  lastfm_track_genre_cache,    \* "artist|title" -> genre or ""
  run,           \* number of program starts so far
  pc,            \* position of process_files
  unprocessed,   \* unprocessed_files of this run
  i,             \* index of the current file in unprocessed
  attempt,       \* the loop variable of `for attempt in range(2)`
  exc,           \* text of the exception being handled, None otherwise
  artist, title, search_query, track_data, metadata,
  audio_write, has_art,
  success_count, failed_count, skipped_count, art_added_count, failed_files,
  bucket,        \* history: file -> terminal buckets it was counted in, this run
  started,       \* history: attempts started for the current file
  raised,        \* history: attempts of the current file that raised
  ops,           \* history: the operations the last step performed
  saved,         \* history: the tag save of the current attempt completed
  prev_all_success, \* history: in an earlier run every file ended SUCCESS
  mode,          \* the function __main__ routes to, with its mode
  already_had_art, no_metadata_count, lyrics_added,  \* add_album_art_only
  disk0          \* history: file -> its tag container at program start

env    == <<world, opts, keys_ok, stem>>
caches == <<spotify_cache, spotify_cache_file, spotify_artist_genre_cache,
            lastfm_track_genre_cache>>
locals == <<artist, title, search_query, track_data, metadata, audio_write,
            has_art>>
counts == <<success_count, failed_count, skipped_count, art_added_count,
            failed_files>>
\* What only strip_metadata_from_files and add_album_art_only use.
others == <<mode, already_had_art, no_metadata_count, lyrics_added, disk0>>
vars == <<env, others, disk, ledger, caches, run, pc, unprocessed, i, attempt,
          exc, locals, counts, bucket, started, raised, ops, saved,
          prev_all_success>>

\* The .mp3 files under the music directory, in the order rglob lists them.
\* An operation as recorded in ops: its name and the key it was made for
\* (the query, the cache key or the artist id; empty when it has none).
Op(name) == [op |-> name, key |-> <<>>, n |-> 1]
OpOn(name, key) == [op |-> name, key |-> key, n |-> 1]
\* The n-th call made in a row at one call site.
OpNth(name, n) == [op |-> name, key |-> <<>>, n |-> n]
Did(name) == \E o \in ops : o.op = name

Files == 1..world.files

\* The file the loop of process_files is at.
cur == unprocessed[i]

\* Elements of a sequence, and the subsequence of those satisfying a test.
Range(s) == {s[n] : n \in 1..Len(s)}

EmptyMap == [k \in {} |-> None]
EmptyMetadata ==
  [artist |-> None, title |-> None, album |-> None, album_artist |-> None,
   track_number |-> None, year |-> None, genre |-> None, bpm |-> None,
   key |-> None, mood |-> None, danceability |-> None, popularity |-> None,
   lyrics |-> None]

\* ------------------------------------------------------------ search cache
TypeTrackLimit1 == <<"|", "t", "r", "a", "c", "k", "|", "1">>

\* cache_key = f"{query}|{type}|{limit}" with type='track', limit=1.
CacheKey(query) == query \o TypeTrackLimit1

\* A search result as the callers see it: ok = FALSE is Python's None.
NoResult == [ok |-> FALSE, items |-> <<>>]
Response(items) == [ok |-> TRUE, items |-> items]

\* Python's `results and results['tracks']['items']`.
HasHit(res) == res.ok /\ res.items # <<>>

\* A cached search that takes a cached response without items for a miss.
search_ignoring_empty(cache, query, o) ==
  LET cache_key == CacheKey(query) IN
  IF cache_key \in DOMAIN cache /\ HasHit(cache[cache_key])
  THEN [result |-> cache[cache_key], cache |-> cache,
        called |-> FALSE, failed |-> FALSE]
  ELSE IF o.raises
       THEN [result |-> NoResult, cache |-> cache,
             called |-> TRUE, failed |-> TRUE]
       ELSE [result |-> Response(o.items),
             cache  |-> (cache_key :> Response(o.items)) @@ cache,
             called |-> TRUE, failed |-> FALSE]

\* A cached search that stores an empty response when the call raises.
search_caching_failure(cache, query, o) ==
  LET cache_key == CacheKey(query) IN
  IF cache_key \in DOMAIN cache
  THEN [result |-> cache[cache_key], cache |-> cache,
        called |-> FALSE, failed |-> FALSE]
  ELSE IF o.raises
       THEN [result |-> NoResult,
             cache  |-> (cache_key :> Response(<<>>)) @@ cache,
             called |-> TRUE, failed |-> TRUE]
       ELSE [result |-> Response(o.items),
             cache  |-> (cache_key :> Response(o.items)) @@ cache,
             called |-> TRUE, failed |-> FALSE]

\* search_spotify_with_cache(sp, query, 'track', 1) when one sp.search call
\* would behave as outcome o: the result, the cache afterwards, whether the
\* service was contacted and whether that call raised.
search_spotify_with_cache(cache, query, o) ==
  LET cache_key == CacheKey(query) IN
  IF cache_key \in DOMAIN cache
  THEN [result |-> cache[cache_key], cache |-> cache,
        called |-> FALSE, failed |-> FALSE]
  ELSE IF o.raises
       THEN [result |-> NoResult, cache |-> cache,
             called |-> TRUE, failed |-> TRUE]
       ELSE [result |-> Response(o.items),
             cache  |-> (cache_key :> Response(o.items)) @@ cache,
             called |-> TRUE, failed |-> FALSE]

\* The operations of one cached search for query, as recorded in ops.
SearchOps(query, r) ==
  {OpOn("cache_lookup", query)}
  \cup (IF r.called THEN {OpOn("search", query)} ELSE {})
  \cup (IF r.failed THEN {OpOn("search_failed", query)} ELSE {})

\* ------------------------------------------------------- label aggregation
\* Code-point order of the characters that occur in labels.
CharOrder == <<" ", "&", "-", "/", "0", "1", "2", "3", "4", "5", "6", "7", "8",
               "9", ":", "A","B","C","D","E","F","G","H","I","J","K","L","M",
               "N","O","P","Q","R","S","T","U","V","W","X","Y","Z",
               "a","b","c","d","e","f","g","h","i","j","k","l","m",
               "n","o","p","q","r","s","t","u","v","w","x","y","z", "|">>
Ord(c) == CHOOSE n \in 1..Len(CharOrder) : CharOrder[n] = c

\* Python's a < b on strings.
StrLess(a, b) ==
  \/ /\ Len(a) < Len(b)
     /\ \A n \in 1..Len(a) : a[n] = b[n]
  \/ \E n \in 1..Len(a) :
       /\ n <= Len(b)
       /\ \A m \in 1..(n - 1) : a[m] = b[m]
       /\ Ord(a[n]) < Ord(b[n])

RECURSIVE WeightOf(_, _)
\* canon_counts[c] after the aggregation loop over a list of (name, count).
WeightOf(tags, c) ==
  IF tags = <<>> THEN 0
  ELSE (IF _normalize_genre_label(Head(tags).name) = c THEN Head(tags).count ELSE 0)
       + WeightOf(Tail(tags), c)

\* A choice among the heaviest labels that takes the one listed first.
TopLabelFirstListed(tags) ==
  LET Canon(n) == _normalize_genre_label(tags[n].name)
      Heaviest(n) == \A m \in 1..Len(tags) :
                       WeightOf(tags, Canon(n)) >= WeightOf(tags, Canon(m))
  IN Canon(CHOOSE n \in 1..Len(tags) :
             Heaviest(n) /\ \A m \in 1..(n - 1) : ~Heaviest(m))

\* sorted(canon_counts.items(), key=lambda x: (-x[1], x[0]))[0][0]
TopLabel(tags) ==
  LET labels == {_normalize_genre_label(tags[n].name) : n \in 1..Len(tags)} IN
  CHOOSE c \in labels :
    \A d \in labels \ {c} :
      \/ WeightOf(tags, c) > WeightOf(tags, d)
      \/ WeightOf(tags, c) = WeightOf(tags, d) /\ StrLess(c, d)

\* ------------------------------------------------------- tag-cloud service
Trap == <<"t", "r", "a", "p">>
Shoegaze == <<"s", "h", "o", "e", "g", "a", "z", "e">>
Unknown == <<"U", "n", "k", "n", "o", "w", "n">>

\* What one HTTP call to the tag-cloud service can do: raise (timeout, or a
\* body that is not the JSON expected), answer with a status other than 200,
\* or answer 200 with a list of tags.
LastfmOutcomes ==
  { [kind |-> "raise", tags |-> <<>>],
    [kind |-> "status", tags |-> <<>>],
    [kind |-> "ok", tags |-> <<>>],
    [kind |-> "ok", tags |-> <<[name |-> Trap, count |-> 5]>>],
    [kind |-> "ok", tags |-> <<[name |-> <<>>, count |-> 7],
                               [name |-> Shoegaze, count |-> 0]>>] }

RECURSIVE UsableTags(_)
\* The tags kept by `if name and count > 0`.
UsableTags(tag_list) ==
  IF tag_list = <<>> THEN <<>>
  ELSE (IF Strip(Head(tag_list).name) # <<>> /\ Head(tag_list).count > 0
        THEN <<[name |-> Strip(Head(tag_list).name),
                count |-> Head(tag_list).count]>>
        ELSE <<>>) \o UsableTags(Tail(tag_list))

LastfmKey(a, t) == Lower(a) \o <<"|">> \o Lower(t)

\* get_genre_from_lastfm(artist, title) when the track.gettoptags call would
\* behave as o1 and the artist.gettoptags call as o2: the genre (None when
\* there is none), the cache afterwards, the number of HTTP calls made and
\* whether the lookup failed: no call made was answered with status 200.
get_genre_from_lastfm(api_key, a, t, cache, o1, o2) ==
  LET cache_key == LastfmKey(a, t)
      tags1 == IF o1.kind = "ok" THEN UsableTags(o1.tags) ELSE <<>>
      tags2 == IF o2.kind = "ok" THEN UsableTags(o2.tags) ELSE <<>>
      tags  == IF tags1 # <<>> THEN tags1 ELSE tags2
      calls == IF tags1 # <<>> THEN 1 ELSE 2
      failed == o1.kind # "ok" /\ o2.kind # "ok"
  IN
  IF ~api_key \/ a = <<>> \/ t = <<>>
  THEN [genre |-> None, cache |-> cache, calls |-> 0, failed |-> FALSE]
  ELSE IF cache_key \in DOMAIN cache
  THEN [genre |-> IF cache[cache_key] = <<>> THEN None ELSE cache[cache_key],
        cache |-> cache, calls |-> 0, failed |-> FALSE]
  ELSE IF o1.kind = "raise"
  THEN [genre |-> None, cache |-> cache, calls |-> 1, failed |-> TRUE]
  ELSE IF tags1 = <<>> /\ o2.kind = "raise"
  THEN [genre |-> None, cache |-> cache, calls |-> 2, failed |-> failed]
  ELSE IF tags = <<>>
  THEN [genre |-> None, cache |-> (cache_key :> <<>>) @@ cache,
        calls |-> calls, failed |-> failed]
  ELSE [genre |-> TopLabel(tags),
        cache |-> (cache_key :> TopLabel(tags)) @@ cache,
        calls |-> calls, failed |-> failed]

\* The operations of one tag-cloud lookup for (a, t), as recorded in ops.
LastfmOps(a, t, r) ==
  (IF r.calls > 0 THEN {OpOn("lastfm", LastfmKey(a, t))} ELSE {})
  \cup (IF r.failed THEN {OpOn("lastfm_failed", LastfmKey(a, t))} ELSE {})

\* ---------------------------------------------------- artist lookup service
ClassicRock == <<"c","l","a","s","s","i","c"," ","r","o","c","k">>
ArtRock == <<"a","r","t"," ","r","o","c","k">>

\* What a lookup of one artist can give: an exception, no artist object, an
\* artist object whose "genres" is null, or an artist object with its genre
\* list.
ArtistAnswers ==
  { [kind |-> "raise", genres |-> <<>>],
    [kind |-> "none", genres |-> <<>>],
    [kind |-> "null", genres |-> <<>>],
    [kind |-> "ok", genres |-> <<>>],
    [kind |-> "ok", genres |-> <<ClassicRock, ArtRock>>] }

RECURSIVE Dedup(_, _)
\* The `seen` loop: ids in order, first occurrences only.
Dedup(ids, seen) ==
  IF ids = <<>> THEN <<>>
  ELSE IF Head(ids) \in seen THEN Dedup(Tail(ids), seen)
       ELSE <<Head(ids)>> \o Dedup(Tail(ids), seen \cup {Head(ids)})

MaxArtistIds == 10

\* ordered_ids: track artists, then album artists, de-duplicated, first 10.
OrderedIds(td) ==
  LET artist_ids == [n \in 1..Len(td.artists) |-> td.artists[n].id]
      album_artist_ids ==
        [n \in 1..Len(td.album.artists) |-> td.album.artists[n].id]
      all == Dedup(artist_ids \o album_artist_ids, {})
  IN SubSeq(all, 1, IF Len(all) < MaxArtistIds THEN Len(all) ELSE MaxArtistIds)

\* The artist-genre cache after the fetch block: the batch call answers with
\* ans unless batch_raises, and then each id is looked up on its own, again
\* answered by ans.  The batch loop stores `genres or []`, the single lookup
\* stores `genres` as it is, null included.
FetchArtistGenres(cache, to_fetch, batch_raises, ans) ==
  LET got == IF batch_raises
             THEN to_fetch
             ELSE {aid \in to_fetch : ans[aid].kind \in {"ok", "null"}}
  IN [aid \in DOMAIN cache \cup got |->
        IF aid \in got
        THEN (IF ans[aid].kind = "ok" THEN ans[aid].genres
              ELSE IF ans[aid].kind = "null" /\ batch_raises THEN None
              ELSE <<>>)
        ELSE cache[aid]]

\* The operations of the fetch block, as recorded in ops: the batch call for
\* the ids to fetch and, when it raised, one call per id.
ArtistOps(to_fetch, batch_raises, ans) ==
  {OpOn("artists", aid) : aid \in to_fetch}
  \cup (IF batch_raises /\ to_fetch # {}
        THEN {Op("batch_failed")}
             \cup {OpOn("artist", aid) : aid \in to_fetch}
             \cup {OpOn("artist_failed", aid) :
                     aid \in {x \in to_fetch : ans[x].kind = "raise"}}
        ELSE {})

\* `all_genres.extend(None)` raises TypeError: the cache holds null for one
\* of ordered_ids.
ExtendRaises(ids, cache) ==
  \E n \in 1..Len(ids) : ids[n] \in DOMAIN cache /\ cache[ids[n]] = None

RECURSIVE AllGenres(_, _)
\* all_genres: the cached genre lists of ordered_ids, concatenated.
AllGenres(ids, cache) ==
  IF ids = <<>> THEN <<>>
  ELSE (IF Head(ids) \in DOMAIN cache THEN cache[Head(ids)] ELSE <<>>)
       \o AllGenres(Tail(ids), cache)

\* The genre labels as (name, count) pairs of weight one.
Unit(genres) == [n \in 1..Len(genres) |-> [name |-> genres[n], count |-> 1]]

\* ------------------------------------------------------------ process_files
\* Operations that contact a remote service.
RemoteOps == {"gemma", "search", "lastfm", "artists", "artist", "gemini",
              "genius", "image", "art_search"}

\* Whether operation op on a file fails in this step: it can only where the
\* file system of this world fails.
IoOutcomes(op) == IF op \in world.io_error THEN BOOLEAN ELSE {FALSE}

\* __main__: `if args.no_cache: spotify_cache = {}`, on the module global
\* that process_files loads into afterwards.
main_no_cache(in_memory, no_cache) == IF no_cache THEN EmptyMap ELSE in_memory

\* load_spotify_cache: the dict read from spotify_cache.json replaces the one
\* in memory (a missing file is an empty dict here).
load_spotify_cache(in_memory, file) == file

\* A ledger filter that finds no file: every run takes every file again.
IsProcessedNever(f, log) == FALSE

\* `db.search(Song.path == str(file_path))` is not empty.
IsProcessed(f, log) == f \in Range(log)

\* A credential check that lets every installation pass.
check_api_keys_lenient(required_set) == TRUE

\* check_api_keys: passes when no required credential is missing, else
\* exit(1).
check_api_keys(required_set) == required_set

\* check_api_keys, load_spotify_cache, the ledger filter and the counters'
\* reset.  With a required credential missing the program exits; with every
\* file in the ledger process_files returns at once.
StartRun ==
  /\ mode = "enrich"
  /\ pc \in {"idle", "done", "exit"}
  /\ run < world.runs
  /\ run' = run + 1
  /\ LET todo == SelectSeq([n \in 1..world.files |-> n],
                           LAMBDA f : ~IsProcessed(f, ledger))
         passed == check_api_keys(keys_ok)
     IN
     /\ spotify_cache' = IF passed
                        THEN load_spotify_cache(
                               main_no_cache(EmptyMap, opts.no_cache),
                               spotify_cache_file)
                        ELSE main_no_cache(EmptyMap, opts.no_cache)
     /\ unprocessed' = IF passed THEN todo ELSE <<>>
     /\ i' = IF passed /\ todo # <<>> THEN 1 ELSE 0
     /\ pc' = IF ~passed THEN "exit"
              ELSE IF todo = <<>> THEN "done" ELSE "read"
  /\ attempt' = 0
  /\ exc' = None
  /\ success_count' = 0 /\ failed_count' = 0 /\ skipped_count' = 0
  /\ art_added_count' = 0 /\ failed_files' = <<>>
  /\ prev_all_success' =
       (prev_all_success \/ (run >= 1 /\ \A f \in Files : bucket[f] = {"SUCCESS"}))
  /\ bucket' = [f \in Files |-> {}]
  /\ started' = 0 /\ raised' = 0
  /\ ops' = {} /\ saved' = FALSE
  /\ UNCHANGED <<env, others, disk, ledger, spotify_cache_file,
                 spotify_artist_genre_cache, lastfm_track_genre_cache,
                 locals>>

\* A tag test that falls back to the filename only when both tags are missing.
NeedsFilenameBothMissing(a, t) == ~Truthy(a) /\ ~Truthy(t)

\* Python's `not artist or not title`, after the tag read.
NeedsFilename(a, t) == ~Truthy(a) \/ ~Truthy(t)

\* Python's `not artist or not title`, after the filename fallback.
PairMissing(a, t) == ~Truthy(a) \/ ~Truthy(t)

\* Step 1 of an attempt: artist and title from the embedded tags.  Reading
\* the file may fail with an error other than ID3NoHeaderError.
ReadTags ==
  /\ pc = "read"
  /\ started' = started + 1
  /\ ops' = {Op("tag_read")}
  /\ saved' = FALSE
  /\ \E io_error \in IoOutcomes("read") :
       IF io_error
       THEN /\ pc' = "except" /\ exc' = <<"r", "e", "a", "d">>
            /\ artist' = None /\ title' = None
       ELSE LET audio == disk[cur]
                a == IF audio.hdr /\ audio.TPE1 # None THEN audio.TPE1 ELSE None
                t == IF audio.hdr /\ audio.TIT2 # None THEN audio.TIT2 ELSE None
            IN /\ artist' = a /\ title' = t
               /\ pc' = IF NeedsFilename(a, t) THEN "parse" ELSE "track"
               /\ exc' = exc
  /\ UNCHANGED <<env, others, disk, ledger, caches, run, unprocessed, i, attempt,
                 search_query, track_data, metadata, audio_write, has_art,
                 counts, bucket, raised, prev_all_success>>

\* Step 2: artist, title = file_path.stem.split(' - ', 1); a stem without the
\* delimiter raises ValueError and leads to the search fallback.
ParseFilename ==
  /\ pc = "parse"
  /\ LET parts == SplitOnce(stem[cur]) IN
     IF Len(parts) = 2
     THEN /\ artist' = parts[1] /\ title' = parts[2]
          /\ search_query' = search_query
          /\ pc' = "check"
     ELSE /\ artist' = artist /\ title' = title
          /\ search_query' = stem[cur]
          /\ pc' = IF opts.has_gemini_key THEN "clean" ELSE "isearch"
  /\ ops' = {Op("parse")}
  /\ UNCHANGED <<env, others, disk, ledger, caches, run, unprocessed, i, attempt,
                 exc, track_data, metadata, audio_write, has_art, counts,
                 bucket, started, raised, saved, prev_all_success>>

MaxCleanedLen == 100
Bohemian == <<"B">>
TooLong == [n \in 1..(MaxCleanedLen + 1) |-> "z"]
JustFits == [n \in 1..MaxCleanedLen |-> "y"]

\* What the text-generation service can answer to the cleanup prompt, after
\* strip(): an error, an empty text, a usable title, an over-long text.
GemmaOutcomes ==
  { [raises |-> TRUE, text |-> <<>>], [raises |-> FALSE, text |-> <<>>],
    [raises |-> FALSE, text |-> Bohemian], [raises |-> FALSE, text |-> TooLong],
    [raises |-> FALSE, text |-> JustFits] }

\* A cleanup that accepts an answer of any length.
clean_filename_any_length(o) ==
  IF o.raises THEN None
  ELSE IF o.text = <<>> THEN None
  ELSE o.text

\* clean_filename_with_gemma: the cleaned text, or None.
clean_filename_with_gemma(o) ==
  IF o.raises THEN None
  ELSE IF Len(o.text) > MaxCleanedLen \/ o.text = <<>> THEN None
  ELSE o.text

\* Step 3a: the AI cleanup of the filename, when a Gemini key is set.
CleanFilename ==
  /\ pc = "clean"
  /\ \E o \in world.gemma :
       LET cleaned == clean_filename_with_gemma(o) IN
       /\ search_query' = IF Truthy(cleaned) THEN cleaned ELSE search_query
       /\ ops' = {OpOn("gemma", o.text)}
                 \cup (IF o.raises THEN {Op("gemma_failed")} ELSE {})
  /\ pc' = "isearch"
  /\ UNCHANGED <<env, others, disk, ledger, caches, run, unprocessed, i, attempt,
                 exc, artist, title, track_data, metadata, audio_write,
                 has_art, counts, bucket, started, raised, saved,
                 prev_all_success>>

\* A skipped exit that goes round the attempt loop again.
AfterSkipAgain == "read"

\* A skipped exit that is handled as a failure of the attempt.
AfterSkipFails == "except"

\* The skipped exit of an attempt: skipped_count += 1 and break.
AfterSkip == "advance"

\* Step 3b: the cached free-text search; a hit gives artist and title, no hit
\* skips the file.
IdentitySearch ==
  /\ pc = "isearch"
  /\ \E o \in world.search :
       LET r == search_spotify_with_cache(spotify_cache, search_query, o)
       IN
       /\ spotify_cache' = r.cache
       /\ ops' = SearchOps(search_query, r) \cup {Op("free_search")}
       /\ IF HasHit(r.result)
          THEN LET found_track == r.result.items[1] IN
               IF found_track.wellformed
               THEN /\ artist' = found_track.artists[1].name
                    /\ title' = found_track.name
                    /\ pc' = "check" /\ exc' = exc
                    /\ UNCHANGED <<skipped_count, bucket>>
               ELSE /\ pc' = "except" /\ exc' = <<"k", "e", "y">>
                    /\ UNCHANGED <<artist, title, skipped_count, bucket>>
          ELSE /\ pc' = AfterSkip /\ exc' = exc
               /\ skipped_count' = skipped_count + 1
               /\ bucket' = [bucket EXCEPT ![cur] = @ \cup {"SKIPPED"}]
               /\ UNCHANGED <<artist, title>>
  /\ UNCHANGED <<env, others, disk, ledger, spotify_cache_file,
                 spotify_artist_genre_cache, lastfm_track_genre_cache, run,
                 unprocessed, i, attempt, search_query, track_data, metadata,
                 audio_write, has_art, success_count, failed_count,
                 art_added_count, failed_files, started, raised, saved,
                 prev_all_success>>

\* `if not artist or not title`: skip the file.
CheckPair ==
  /\ pc = "check"
  /\ IF PairMissing(artist, title)
     THEN /\ pc' = AfterSkip
          /\ skipped_count' = skipped_count + 1
          /\ bucket' = [bucket EXCEPT ![cur] = @ \cup {"SKIPPED"}]
     ELSE /\ pc' = "track"
          /\ UNCHANGED <<skipped_count, bucket>>
  /\ UNCHANGED <<env, others, disk, ledger, caches, run, unprocessed, i, attempt,
                 exc, locals, success_count, failed_count, art_added_count,
                 failed_files, started, raised, saved, prev_all_success>>
  /\ ops' = {}

RECURSIVE JoinNames(_)
\* ", ".join(a['name'] for a in artists)
JoinNames(artists) ==
  IF artists = <<>> THEN <<>>
  ELSE IF Len(artists) = 1 THEN artists[1].name
  ELSE artists[1].name \o <<",", " ">> \o JoinNames(Tail(artists))

\* A re-search with the plain text "X Y" as its query.
FieldQueryPlain(a, t) == a \o <<" ">> \o t

\* query = f"artist:{artist} track:{title}"
FieldQuery(a, t) ==
  <<"a","r","t","i","s","t",":">> \o a \o <<" ","t","r","a","c","k",":">> \o t

\* The metadata dict built from a TrackRecord.
Extract(td) ==
  [EmptyMetadata EXCEPT
     !.artist = JoinNames(td.artists),
     !.title = td.name,
     !.album = td.album.name,
     !.album_artist = JoinNames(td.album.artists),
     !.track_number = td.track_number \o <<"/">> \o td.album.total_tracks,
     !.year = SubSeq(td.album.release_date, 1,
                     IF Len(td.album.release_date) < 4
                     THEN Len(td.album.release_date) ELSE 4)]

\* The canonical re-search "artist:X track:Y" and the metadata extraction.
TrackSearch ==
  /\ pc = "track"
  /\ \E o \in world.search :
       LET r == search_spotify_with_cache(spotify_cache,
                                          FieldQuery(artist, title), o)
       IN
       /\ spotify_cache' = r.cache
       /\ ops' = SearchOps(FieldQuery(artist, title), r)
                 \cup {Op("field_search")}
       /\ IF ~HasHit(r.result)
          THEN /\ pc' = AfterSkip /\ exc' = exc
               /\ skipped_count' = skipped_count + 1
               /\ bucket' = [bucket EXCEPT ![cur] = @ \cup {"SKIPPED"}]
               /\ UNCHANGED <<track_data, metadata>>
          ELSE IF r.result.items[1].wellformed
          THEN /\ track_data' = r.result.items[1]
               /\ metadata' = Extract(r.result.items[1])
               /\ pc' = "genre" /\ exc' = exc
               /\ UNCHANGED <<skipped_count, bucket>>
          ELSE /\ track_data' = r.result.items[1]
               /\ pc' = "except" /\ exc' = <<"k", "e", "y">>
               /\ UNCHANGED <<metadata, skipped_count, bucket>>
  /\ UNCHANGED <<env, others, disk, ledger, spotify_cache_file,
                 spotify_artist_genre_cache, lastfm_track_genre_cache, run,
                 unprocessed, i, attempt, artist, title, search_query,
                 audio_write, has_art, success_count, failed_count,
                 art_added_count, failed_files, started, raised, saved,
                 prev_all_success>>

\* primary_artist and the track title, as get_genre_from_spotify passes them
\* to get_genre_from_lastfm (`or ''` turns None into "").
PrimaryArtist(td) == IF td.artists # <<>> THEN td.artists[1].name ELSE <<>>

\* A resolver that always goes on to the artist lookup.
LastfmNeverWins(api_key, lf) == FALSE

\* A resolution that gives up with no genre at all.
NoGenreAtAll == None \o <<>>

\* The result when no source has a genre: `return 'Unknown'` and
\* `return lf or 'Unknown'`.
NoGenre == Unknown

\* `if os.getenv("LASTFM_API_KEY"): ... if lf: return lf`
LastfmWins(api_key, lf) == api_key /\ lf # None

\* get_genre_from_spotify, first part: with a tag-cloud key, the tag-cloud
\* genre wins outright.
GenreLastfm ==
  /\ pc = "genre"
  /\ \E o1 \in world.lastfm, o2 \in world.lastfm :
       LET r == get_genre_from_lastfm(opts.lastfm_key, PrimaryArtist(track_data),
                                      track_data.name, lastfm_track_genre_cache,
                                      o1, o2)
       IN
       /\ lastfm_track_genre_cache' = r.cache
       /\ ops' = LastfmOps(PrimaryArtist(track_data), track_data.name, r)
                 \cup {Op("lastfm_lookup")}
       /\ IF LastfmWins(opts.lastfm_key, r.genre)
          THEN /\ metadata' = [metadata EXCEPT !.genre = r.genre]
               /\ pc' = "analysis"
          ELSE /\ metadata' = metadata
               /\ pc' = "genre_artists"
  /\ UNCHANGED <<env, others, disk, ledger, spotify_cache, spotify_cache_file,
                 spotify_artist_genre_cache, run, unprocessed, i, attempt,
                 exc, artist, title, search_query, track_data, audio_write,
                 has_art, counts, bucket, started, raised, saved,
                 prev_all_success>>

\* get_genre_from_spotify, second part: the artist-genre lookup through the
\* artist-genre cache, batch first, one call per artist when the batch fails.
GenreArtists ==
  /\ pc = "genre_artists"
  /\ \E batch_raises \in world.batch_raises, ans \in [ArtistIds -> world.artist] :
       LET ordered_ids == OrderedIds(track_data)
           to_fetch == {aid \in Range(ordered_ids) :
                          aid \notin DOMAIN spotify_artist_genre_cache}
           cache == IF to_fetch = {} THEN spotify_artist_genre_cache
                    ELSE FetchArtistGenres(spotify_artist_genre_cache,
                                           to_fetch, batch_raises, ans)
           all_genres == IF ExtendRaises(ordered_ids, cache) THEN <<>>
                         ELSE AllGenres(ordered_ids, cache)
       IN
       /\ spotify_artist_genre_cache' = cache
       /\ ops' = ArtistOps(to_fetch, batch_raises, ans) \cup {Op("artist_genres")}
       /\ IF ExtendRaises(ordered_ids, cache) \/ all_genres = <<>>
          THEN IF opts.lastfm_key
               THEN /\ metadata' = metadata
                    /\ pc' = "genre_fallback"
               ELSE /\ metadata' = [metadata EXCEPT !.genre = NoGenre]
                    /\ pc' = "analysis"
          ELSE /\ metadata' = [metadata EXCEPT !.genre = TopLabel(Unit(all_genres))]
               /\ pc' = "analysis"
  /\ UNCHANGED <<env, others, disk, ledger, spotify_cache, spotify_cache_file,
                 lastfm_track_genre_cache, run, unprocessed, i, attempt, exc,
                 artist, title, search_query, track_data, audio_write,
                 has_art, counts, bucket, started, raised, saved,
                 prev_all_success>>

\* get_genre_from_spotify, last part: no artist genres and a tag-cloud key:
\* the tag-cloud service is asked once more, else "Unknown".
GenreFallback ==
  /\ pc = "genre_fallback"
  /\ \E o1 \in world.lastfm, o2 \in world.lastfm :
       LET r == get_genre_from_lastfm(opts.lastfm_key, PrimaryArtist(track_data),
                                      track_data.name, lastfm_track_genre_cache,
                                      o1, o2)
       IN
       /\ lastfm_track_genre_cache' = r.cache
       /\ ops' = LastfmOps(PrimaryArtist(track_data), track_data.name, r)
                 \cup {Op("lastfm_lookup")}
       /\ metadata' = [metadata EXCEPT
                         !.genre = IF r.genre # None THEN r.genre ELSE NoGenre]
  /\ pc' = "analysis"
  /\ UNCHANGED <<env, others, disk, ledger, spotify_cache, spotify_cache_file,
                 spotify_artist_genre_cache, run, unprocessed, i, attempt,
                 exc, artist, title, search_query, track_data, audio_write,
                 has_art, counts, bucket, started, raised, saved,
                 prev_all_success>>

\* What one try of the analysis can give: an exception (timeout, server
\* error, text that is not JSON), or what json.loads returns: null, the
\* record asked for, a JSON object with other keys, or a JSON value that is
\* not an object.
AnalysisKeys == {"bpm", "key", "mood", "danceability", "popularity"}
AnalysisOutcomes ==
  { [kind |-> "raise", fields |-> EmptyMap],
    [kind |-> "none", fields |-> EmptyMap],
    [kind |-> "dict",
     fields |-> [k \in AnalysisKeys |-> <<"7">>]],
    [kind |-> "dict",
     fields |-> [k \in {"genre", "bpm"} |-> <<"X">>]],
    [kind |-> "notdict", fields |-> EmptyMap] }

\* The number of tries of get_gemini_analysis and of get_lyrics.
HelperTries == 2

\* An analysis that gives up after its first failed try.
get_gemini_analysis_once(o1, o2) ==
  [value |-> IF o1.kind = "raise" THEN [kind |-> "none", fields |-> EmptyMap]
             ELSE o1,
   calls |-> 1, failed |-> o1.kind = "raise"]

\* get_gemini_analysis when the first try would behave as o1 and the second
\* as o2: the value returned (kind "none" for None), the calls made and
\* whether a try raised.
get_gemini_analysis(o1, o2) ==
  IF o1.kind # "raise" THEN [value |-> o1, calls |-> 1, failed |-> FALSE]
  ELSE IF o2.kind # "raise"
  THEN [value |-> o2, calls |-> HelperTries, failed |-> TRUE]
  ELSE [value |-> [kind |-> "none", fields |-> EmptyMap],
        calls |-> HelperTries, failed |-> TRUE]

\* metadata.update(analysis) for a dict.
Update(md, fields) ==
  [k \in DOMAIN md |-> IF k \in DOMAIN fields THEN fields[k] ELSE md[k]]

\* The calls of a helper that tried `calls` times, as recorded in ops.
HelperOps(name, failure, r) ==
  {OpNth(name, n) : n \in 1..r.calls}
  \cup (IF r.failed THEN {Op(failure)} ELSE {})

\* The optional AI analysis.  `if analysis: metadata.update(analysis)` raises
\* on a value that is not a mapping.
Analysis ==
  /\ pc = "analysis"
  /\ IF opts.use_gemini
     THEN \E o1 \in world.analysis, o2 \in world.analysis :
            LET r == get_gemini_analysis(o1, o2) IN
            /\ ops' = HelperOps("gemini", "gemini_failed", r)
            /\ IF r.value.kind = "notdict"
               THEN /\ pc' = "except" /\ exc' = <<"t", "y", "p", "e">>
                    /\ metadata' = metadata
               ELSE /\ pc' = "lyrics" /\ exc' = exc
                    /\ metadata' = Update(metadata, r.value.fields)
     ELSE /\ pc' = "lyrics"
          /\ ops' = {}
          /\ UNCHANGED <<exc, metadata>>
  /\ UNCHANGED <<env, others, disk, ledger, caches, run, unprocessed, i, attempt,
                 artist, title, search_query, track_data, audio_write,
                 has_art, counts, bucket, started, raised, saved,
                 prev_all_success>>

Words == <<"l", "y", "r">>

\* What one try of the lyrics search can give: an exception, no song, or
\* the lyrics of the song.
LyricsOutcomes ==
  { [raises |-> TRUE, text |-> None], [raises |-> FALSE, text |-> None],
    [raises |-> FALSE, text |-> Words] }

\* get_lyrics when the first try would behave as o1 and the second as o2.
get_lyrics(o1, o2) ==
  IF ~o1.raises THEN [value |-> o1.text, calls |-> 1, failed |-> FALSE]
  ELSE IF ~o2.raises
  THEN [value |-> o2.text, calls |-> HelperTries, failed |-> TRUE]
  ELSE [value |-> None, calls |-> HelperTries, failed |-> TRUE]

\* The optional lyrics search: `if lyrics: metadata['lyrics'] = lyrics`.
Lyrics ==
  /\ pc = "lyrics"
  /\ IF opts.fetch_lyrics
     THEN \E o1 \in world.lyrics, o2 \in world.lyrics :
            LET r == get_lyrics(o1, o2) IN
            /\ ops' = HelperOps("genius", "genius_failed", r)
            /\ metadata' = IF Truthy(r.value)
                           THEN [metadata EXCEPT !.lyrics = r.value]
                           ELSE metadata
     ELSE /\ ops' = {}
          /\ metadata' = metadata
  /\ pc' = "open"
  /\ UNCHANGED <<env, others, disk, ledger, caches, run, unprocessed, i, attempt,
                 exc, artist, title, search_query, track_data, audio_write,
                 has_art, counts, bucket, started, raised, saved,
                 prev_all_success>>

\* audio_write = ID3(file_path), or a new container for a file without a
\* header; has_art.  Opening the file may fail.
OpenForWrite ==
  /\ pc = "open"
  /\ \E io_error \in IoOutcomes("open") :
       IF io_error
       THEN /\ pc' = "except" /\ exc' = <<"o", "p", "e", "n">>
            /\ UNCHANGED <<audio_write, has_art>>
       ELSE /\ audio_write' = IF disk[cur].hdr THEN disk[cur] ELSE EmptyID3
            /\ has_art' = (disk[cur].hdr /\ DOMAIN disk[cur].APIC # {})
            /\ pc' = "art" /\ exc' = exc
  /\ ops' = {Op("tag_open")}
  /\ UNCHANGED <<env, others, disk, ledger, caches, run, unprocessed, i, attempt,
                 artist, title, search_query, track_data, metadata, counts,
                 bucket, started, raised, saved, prev_all_success>>

\* An art decision that fetches a picture also for a file that has one.
ShouldAddArtAlways(no_album_art, force_album_art, art) == ~no_album_art

\* An art decision that honours --force-art over --no-art.
ShouldAddArtForceFirst(no_album_art, force_album_art, art) ==
  force_album_art \/ (~no_album_art /\ ~art)

\* should_add_art = not no_album_art and (force_album_art or not has_art)
ShouldAddArt(no_album_art, force_album_art, art) ==
  ~no_album_art /\ (force_album_art \/ ~art)

NoArt == "none"

\* get_album_art_from_track: the first image of the TrackRecord, downloaded;
\* None without images or when the download fails.
get_album_art_from_track(td, download_ok) ==
  IF td.album.images = <<>> THEN NoArt
  ELSE IF download_ok THEN td.album.images[1] ELSE NoArt

\* The query of get_album_art: the title without quotes, stripped and cut to
\* MaxTitleLen characters, and the artist text before the first comma.
CompactQuery(a, t) ==
  LET primary_artist == Strip(BeforeFirst(a, ","))
      stripped == Strip(Without(t, "\""))
      title_clean == IF Len(stripped) > MaxTitleLen
                     THEN SubSeq(stripped, 1, MaxTitleLen) ELSE stripped
  IN <<"t","r","a","c","k",":","\"">> \o title_clean
     \o <<"\""," ","a","r","t","i","s","t",":","\"">> \o primary_artist
     \o <<"\"">>

\* get_album_art: a search of its own (not through the cache), then the
\* download of the first image of the first hit; None on any failure.
get_album_art(o, download_ok) ==
  IF o.raises \/ o.items = <<>> THEN NoArt
  ELSE IF ~o.items[1].wellformed \/ o.items[1].album.images = <<>> THEN NoArt
  ELSE IF download_ok THEN o.items[1].album.images[1] ELSE NoArt

\* The requests get_album_art makes for answer o: the search, and a download
\* when the first hit has an image.
ArtSearchOps(query, o, download_ok) ==
  {OpOn("art_search", query)}
  \cup (IF o.raises THEN {Op("art_search_failed")} ELSE {})
  \cup (IF ~o.raises /\ o.items # <<>> /\ o.items[1].wellformed
           /\ o.items[1].album.images # <<>>
        THEN {OpOn("image", o.items[1].album.images[1])}
             \cup (IF ~download_ok THEN {Op("image_failed")} ELSE {})
        ELSE {})

\* An art block that adds the new picture next to the old ones.
KeepOldArt(audio) == audio

\* `for key in apic_keys: del audio_write[key]`
DeleteArt(audio) == [audio EXCEPT !.APIC = [d \in {} |-> "none"]]

\* audio_write.add(APIC(desc='Cover', data=art_data)): the frame takes the
\* place of a frame with the same HashKey and joins the others.
AddArt(audio, art_data) ==
  [audio EXCEPT !.APIC = [d \in DOMAIN @ \cup {"Cover"} |->
                            IF d = "Cover" THEN art_data ELSE @[d]]]

\* The album-art block: fetch when should_add_art, from the images of the
\* TrackRecord first and by the compact search when that gave nothing;
\* replace the old pictures under force.
FetchArt ==
  /\ pc = "art"
  /\ IF ShouldAddArt(opts.no_album_art, opts.force_album_art, has_art)
     THEN \E dl1 \in world.download_ok, o \in world.search,
             dl2 \in world.download_ok :
            LET first == get_album_art_from_track(track_data, dl1)
                query == CompactQuery(metadata.artist, metadata.title)
                second == get_album_art(o, dl2)
                art_data == IF first # NoArt THEN first ELSE second
                made == (IF track_data.album.images # <<>>
                         THEN {OpOn("image", track_data.album.images[1])}
                              \cup (IF ~dl1 THEN {Op("image_failed")} ELSE {})
                         ELSE {})
                        \cup (IF first = NoArt THEN ArtSearchOps(query, o, dl2)
                              ELSE {})
                        \cup (IF art_data = NoArt THEN {Op("no_art")} ELSE {})
            IN
            /\ ops' = made
            /\ IF art_data # NoArt
               THEN /\ audio_write' =
                         AddArt(IF opts.force_album_art /\ has_art
                                THEN DeleteArt(audio_write) ELSE audio_write,
                                art_data)
                    /\ art_added_count' = art_added_count + 1
               ELSE UNCHANGED <<audio_write, art_added_count>>
     ELSE /\ ops' = {}
          /\ UNCHANGED <<audio_write, art_added_count>>
  /\ pc' = "write"
  /\ UNCHANGED <<env, others, disk, ledger, caches, run, unprocessed, i, attempt,
                 exc, artist, title, search_query, track_data, metadata,
                 has_art, success_count, failed_count, skipped_count,
                 failed_files, bucket, started, raised, saved,
                 prev_all_success>>

\* A pipeline that enters the ledger without saving the tags.
AfterWriteNoSave == "insert"

\* The statement after the frames are set: audio_write.save().
AfterWrite == "save"

\* A comment stripping that deletes nothing.
strip_no_comments(audio) == audio

\* strip_comments_from_audio: delete every COMM frame.
strip_comments_from_audio(audio) == [audio EXCEPT !.COMM = {}]

\* The frames set from metadata, then the comment stripping.
WriteTags ==
  /\ pc = "write"
  /\ LET w1 == [audio_write EXCEPT
                  !.TPE1 = metadata.artist, !.TIT2 = metadata.title,
                  !.TALB = metadata.album, !.TPE2 = metadata.album_artist,
                  !.TCON = metadata.genre, !.TDRC = metadata.year,
                  !.TRCK = metadata.track_number,
                  !.TBPM = IF metadata.bpm # None THEN metadata.bpm ELSE @,
                  !.TKEY = IF metadata.key # None THEN metadata.key ELSE @,
                  !.USLT = IF metadata.lyrics # None THEN metadata.lyrics ELSE @,
                  !.TXXX = [@ EXCEPT
                     !["Mood"] = IF metadata.mood # None THEN metadata.mood ELSE @,
                     !["Danceability"] = IF metadata.danceability # None
                                         THEN metadata.danceability ELSE @,
                     !["Popularity"] = IF metadata.popularity # None
                                       THEN metadata.popularity ELSE @]]
     IN audio_write' = IF opts.keep_comments THEN w1
                       ELSE strip_comments_from_audio(w1)
  /\ pc' = AfterWrite
  /\ UNCHANGED <<env, others, disk, ledger, caches, run, unprocessed, i, attempt,
                 exc, artist, title, search_query, track_data, metadata,
                 has_art, counts, bucket, started, raised, saved,
                 prev_all_success>>
  /\ ops' = {}

\* A save that has written the first frames when it raises.
save_in_part(on_disk, audio, io_error) ==
  IF io_error
  THEN [on_disk EXCEPT !.hdr = TRUE, !.TPE1 = audio.TPE1, !.TIT2 = audio.TIT2]
  ELSE [audio EXCEPT !.hdr = TRUE]

\* audio_write.save(v2_version=4, padding=None): the container on durable
\* storage afterwards.
save(on_disk, audio, io_error) ==
  IF io_error THEN on_disk ELSE [audio EXCEPT !.hdr = TRUE]

\* audio_write.save(): all frames reach the file, or the save raises and the
\* file is as before.
Save ==
  /\ pc = "save"
  /\ \E io_error \in IoOutcomes("save") :
       IF io_error
       THEN /\ pc' = "except" /\ exc' = <<"s", "a", "v", "e">>
            /\ ops' = {}
            /\ disk' = [disk EXCEPT ![cur] = save(@, audio_write, TRUE)]
            /\ saved' = saved
       ELSE /\ disk' = [disk EXCEPT ![cur] = save(@, audio_write, FALSE)]
            /\ saved' = TRUE
            /\ ops' = {Op("tag_save")}
            /\ pc' = "insert" /\ exc' = exc
  /\ UNCHANGED <<env, others, ledger, caches, run, unprocessed, i, attempt, locals,
                 counts, bucket, started, raised, prev_all_success>>

\* db.insert({'path': ...}); success_count += 1; break.  The insert writes
\* processed_log.json and may fail.
LedgerInsert ==
  /\ pc = "insert"
  /\ \E io_error \in IoOutcomes("db") :
       IF io_error
       THEN /\ pc' = "except" /\ exc' = <<"d", "b">>
            /\ ops' = {}
            /\ UNCHANGED <<ledger, success_count, bucket>>
       ELSE /\ ledger' = Append(ledger, cur)
            /\ success_count' = success_count + 1
            /\ bucket' = [bucket EXCEPT ![cur] = @ \cup {"SUCCESS"}]
            /\ ops' = {Op("db_insert")}
            /\ pc' = "advance" /\ exc' = exc
  /\ UNCHANGED <<env, others, disk, caches, run, unprocessed, i, attempt, locals,
                 failed_count, skipped_count, art_added_count, failed_files,
                 started, raised, saved, prev_all_success>>

Mp3 == <<".", "m", "p", "3">>

\* An attempt loop with one more round.
OneMoreAttempt == 2 + 1

\* `for attempt in range(2)`
MaxAttempts == 2

\* A handler that records the failure on the first attempt.
IsFirstAttempt(n) == n = 0

\* `if attempt == 1`: this was the last attempt.
IsLastAttempt(n) == n = 1

\* The except clause: the last attempt records the failure, the first one
\* sleeps and continues; then the for loop goes on to the next attempt, if
\* there is one.  The locals of the attempt are dead
\* here (each is assigned again before it is read) and are reset.
HandleException ==
  /\ pc = "except"
  /\ raised' = raised + 1
  /\ IF IsLastAttempt(attempt)
     THEN /\ failed_count' = failed_count + 1
          /\ failed_files' = Append(failed_files,
                                    [file |-> cur, name |-> stem[cur] \o Mp3,
                                     error |-> exc])
          /\ bucket' = [bucket EXCEPT ![cur] = @ \cup {"FAILED"}]
     ELSE UNCHANGED <<failed_count, failed_files, bucket>>
  /\ IF attempt + 1 < MaxAttempts
     THEN /\ attempt' = attempt + 1
          /\ pc' = "read"
     ELSE /\ attempt' = attempt
          /\ pc' = "advance"
  /\ exc' = None
  /\ ops' = {}
  /\ artist' = None /\ title' = None /\ search_query' = None
  /\ track_data' = NoTrack /\ metadata' = EmptyMetadata
  /\ audio_write' = EmptyID3 /\ has_art' = FALSE
  /\ UNCHANGED <<env, others, disk, ledger, caches, run, unprocessed, i,
                 success_count, skipped_count, art_added_count, started,
                 saved, prev_all_success>>

\* progress.advance and the next file; after the last file the search cache
\* is saved and process_files returns.  The locals of the attempt are dead
\* here and are reset.
Advance ==
  /\ pc = "advance"
  /\ IF i < Len(unprocessed)
     THEN /\ i' = i + 1
          /\ pc' = "read"
          /\ spotify_cache_file' = spotify_cache_file
     ELSE /\ i' = i
          /\ pc' = "done"
          /\ spotify_cache_file' = spotify_cache
  /\ attempt' = 0
  /\ artist' = None /\ title' = None /\ search_query' = None
  /\ track_data' = NoTrack /\ metadata' = EmptyMetadata
  /\ audio_write' = EmptyID3 /\ has_art' = FALSE
  /\ ops' = {} /\ saved' = FALSE
  /\ started' = 0 /\ raised' = 0
  /\ UNCHANGED <<env, others, disk, ledger, spotify_cache,
                 spotify_artist_genre_cache, lastfm_track_genre_cache, run,
                 unprocessed, exc, counts, bucket, prev_all_success>>

\* ------------------------------------------------------------------ worlds
\* A world says what the collaborators can do in a behaviour: the answers of
\* each remote service and the file operations that can fail.
AllIoErrors == {"read", "open", "save", "db"}

\* Every failure is possible, the enrichment answers are few.
PlainWorld ==
  [search |-> {o \in SearchOutcomes : o.items \in {<<>>, <<TrackFull>>}},
   lastfm |-> {o \in LastfmOutcomes : o.kind = "raise"},
   artist |-> {a \in ArtistAnswers : a.kind = "none" \/ a.genres # <<>>},
   batch_raises |-> {FALSE},
   gemma |-> {o \in GemmaOutcomes : o.raises \/ o.text = Bohemian},
   analysis |-> {o \in AnalysisOutcomes : o.kind \in {"none", "notdict"}},
   lyrics |-> {o \in LyricsOutcomes : ~o.raises /\ o.text = None},
   download_ok |-> {TRUE},
   io_error |-> AllIoErrors,
   files |-> NumFiles,
   runs |-> 1]

\* The installations explored with PlainWorld.
PlainOptions ==
  { o \in ValidOptions :
      /\ ~o.no_cache /\ ~o.force_album_art /\ ~o.keep_comments
      /\ o.no_album_art
      /\ o.use_gemini = o.has_gemini_key
      /\ o.fetch_lyrics = o.use_gemini
      /\ o.lastfm_key = o.use_gemini }

\* The files explored: a filename stem with the tags the file starts with.
PlainFiles ==
  { [stem |-> StemPlain, tags |-> Untagged],
    [stem |-> StemPair, tags |-> TaggedBoth] }

\* The functions __main__ routes to: the two modes of
\* strip_metadata_from_files, add_album_art_only, process_files.
Modes == {"keep_basics", "all", "art_only", "enrich"}

\* The state at program start, routed to one of `modes`: nothing processed
\* yet, no cache file yet.
InitMode(worlds, options, kinds, modes) ==
  /\ world \in worlds
  /\ opts \in options
  /\ keys_ok \in BOOLEAN
  /\ mode \in modes
  /\ already_had_art = 0 /\ no_metadata_count = 0 /\ lyrics_added = 0
  /\ \E kind \in [Files -> kinds] :
       /\ stem = [f \in Files |-> kind[f].stem]
       /\ disk = [f \in Files |-> kind[f].tags]
       /\ disk0 = [f \in Files |-> kind[f].tags]
  /\ ledger = <<>>
  /\ spotify_cache = EmptyMap
  /\ spotify_cache_file = EmptyMap
  /\ spotify_artist_genre_cache = EmptyMap
  /\ lastfm_track_genre_cache = EmptyMap
  /\ run = 0
  /\ pc = "idle"
  /\ unprocessed = <<>>
  /\ i = 0
  /\ attempt = 0
  /\ exc = None
  /\ artist = None /\ title = None /\ search_query = None
  /\ track_data = NoTrack /\ metadata = EmptyMetadata
  /\ audio_write = EmptyID3 /\ has_art = FALSE
  /\ success_count = 0 /\ failed_count = 0 /\ skipped_count = 0
  /\ art_added_count = 0 /\ failed_files = <<>>
  /\ bucket = [f \in Files |-> {}]
  /\ started = 0
  /\ raised = 0
  /\ ops = {}
  /\ saved = FALSE
  /\ prev_all_success = FALSE

\* The state at the start of an enrichment (process_files).
InitWith(worlds, options, kinds) == InitMode(worlds, options, kinds, {"enrich"})

Init == InitWith({PlainWorld}, PlainOptions, PlainFiles)

Next ==
  \/ StartRun \/ ReadTags \/ ParseFilename \/ CleanFilename \/ IdentitySearch
  \/ CheckPair \/ TrackSearch \/ GenreLastfm \/ GenreArtists \/ GenreFallback
  \/ Analysis \/ Lyrics \/ OpenForWrite \/ FetchArt \/ WriteTags \/ Save
  \/ LedgerInsert \/ HandleException \/ Advance

\* One run over NumFiles files, every failure possible.
Spec == Init /\ [][Next]_vars

\* process_files called MaxRuns times over the same files; the ledger insert
\* can fail, so a run can leave files behind for the next one.
RerunWorld ==
  [PlainWorld EXCEPT
     !.search = {o \in SearchOutcomes :
                   ~o.raises /\ o.items \in {<<>>, <<TrackFull>>}},
     !.gemma = {o \in GemmaOutcomes : ~o.raises /\ o.text = Bohemian},
     !.analysis = {o \in AnalysisOutcomes : o.kind = "none"},
     !.io_error = {"db"},
     !.runs = MaxRuns]

InitRerun == InitWith({RerunWorld}, PlainOptions, PlainFiles)

SpecRerun == InitRerun /\ [][Next]_vars

\* One file of every kind, every answer of the search and cleanup services.
IdentityWorld ==
  [PlainWorld EXCEPT
     !.search = SearchOutcomes,
     !.gemma = GemmaOutcomes,
     !.io_error = {"read"},
     !.files = 1]

IdentityFiles == [stem : Stems, tags : TagStates]

InitIdentity == InitWith({IdentityWorld}, PlainOptions, IdentityFiles)

SpecIdentity == InitIdentity /\ [][Next]_vars

\* One file over MaxRuns runs, every answer of the search, tag-cloud and
\* artist services; a failing save makes a second attempt and a second run.
CachesWorld ==
  [PlainWorld EXCEPT
     !.search = {o \in SearchOutcomes :
                   o.items \in {<<>>, <<TrackFull>>, <<TrackDuo>>}},
     !.lastfm = LastfmOutcomes,
     !.artist = ArtistAnswers,
     !.batch_raises = BOOLEAN,
     !.gemma = {o \in GemmaOutcomes : ~o.raises /\ o.text = Bohemian},
     !.analysis = {o \in AnalysisOutcomes : o.kind = "none"},
     !.io_error = {"save"},
     !.files = 1,
     !.runs = MaxRuns]

InitCaches == InitWith({CachesWorld}, PlainOptions, PlainFiles)

SpecCaches == InitCaches /\ [][Next]_vars

\* One file with or without pictures, every answer of the search service
\* for a track with images, without images and with a long quoted title,
\* downloads that succeed or fail, a save that can fail.
ArtWorld ==
  [PlainWorld EXCEPT
     !.search = {[raises |-> TRUE, items |-> <<>>],
                 [raises |-> FALSE, items |-> <<>>]}
                \cup {[raises |-> FALSE, items |-> <<t>>] :
                        t \in {TrackFull, TrackDuo, TrackLong}},
     !.download_ok = BOOLEAN,
     !.gemma = {o \in GemmaOutcomes : ~o.raises /\ o.text = Bohemian},
     !.analysis = {o \in AnalysisOutcomes : o.kind = "none"},
     !.io_error = {"save"},
     !.files = 1]

\* process_files takes force_album_art and no_album_art as two parameters:
\* every combination of the two.
ArtOptions ==
  { o \in Options :
      /\ ~o.no_cache /\ ~o.keep_comments
      /\ o.use_gemini = o.has_gemini_key
      /\ o.fetch_lyrics = o.use_gemini
      /\ o.lastfm_key = o.use_gemini }

ArtFiles ==
  { [stem |-> StemPlain, tags |-> Untagged],
    [stem |-> StemPair, tags |-> TaggedRich],
    [stem |-> StemPair, tags |-> TaggedCover] }

InitArt == InitWith({ArtWorld}, ArtOptions, ArtFiles)

SpecArt == InitArt /\ [][Next]_vars

\* One file, one run, every answer of the optional enrichment services and
\* every failure of the required ones and of the file system.
EnrichWorld ==
  [PlainWorld EXCEPT
     !.artist = {a \in ArtistAnswers : a.kind \in {"raise", "none"}},
     !.batch_raises = BOOLEAN,
     !.analysis = AnalysisOutcomes,
     !.lyrics = LyricsOutcomes,
     !.download_ok = BOOLEAN,
     !.files = 1]

\* Analysis, lyrics, art and comment stripping each on or off.
EnrichOptions ==
  { o \in ValidOptions :
      /\ ~o.no_cache /\ ~o.force_album_art
      /\ o.has_gemini_key = o.use_gemini
      /\ o.lastfm_key = o.use_gemini }

EnrichFiles ==
  { [stem |-> StemPlain, tags |-> Untagged],
    [stem |-> StemPair, tags |-> TaggedRich] }

InitEnrich == InitWith({EnrichWorld}, EnrichOptions, EnrichFiles)

SpecEnrich == InitEnrich /\ [][Next]_vars

\* The runs of RerunWorld, started with and without --no-cache.
NoCacheOptions ==
  { o \in ValidOptions :
      /\ ~o.force_album_art /\ ~o.keep_comments /\ o.no_album_art
      /\ o.use_gemini = o.has_gemini_key
      /\ o.fetch_lyrics = o.use_gemini
      /\ o.lastfm_key = o.use_gemini }

InitNoCache == InitWith({RerunWorld}, NoCacheOptions, PlainFiles)

SpecNoCache == InitNoCache /\ [][Next]_vars

\* Labels a tag of the tag-cloud service can carry.
HipHopLabel == <<"h", "i", "p", "-", "h", "o", "p">>
TrapLabel == <<"T", "r", "a", "p">>
UKDrill == <<"U", "K", " ", "d", "r", "i", "l", "l">>
ShoegazeLabel == <<"S", "h", "o", "e", "g", "a", "z", "e">>
GenreLabels == {HipHopLabel, TrapLabel, UKDrill, ShoegazeLabel}

\* One file, one run; the tag-cloud service either raises or answers with
\* the single tag `label`, and the artist service knows no artist.
GenreWorld(label) ==
  [CachesWorld EXCEPT
     !.lastfm = { [kind |-> "raise", tags |-> <<>>],
                  [kind |-> "ok", tags |-> <<[name |-> label, count |-> 3]>>] },
     !.artist = {a \in ArtistAnswers : a.kind = "none"},
     !.runs = 1]

InitGenres ==
  InitWith({GenreWorld(label) : label \in GenreLabels}, PlainOptions, PlainFiles)

SpecGenres == InitGenres /\ [][Next]_vars

\* ------------------------------------------------ strip_metadata_from_files
\* audio.delete(): the tags are removed from the file at once and the
\* container in memory is cleared; a delete that raises leaves the file as
\* it was.
delete(on_disk, io_error) == IF io_error THEN on_disk ELSE EmptyID3

\* A partial strip that puts back the artist frame only.
ResurrectArtistOnly(a, t) == [EmptyID3 EXCEPT !.TPE1 = a]

\* `if artist: audio.add(artist)` and `if title: audio.add(title)` on the
\* cleared container (None is a frame the file did not have).
Resurrect(a, t) == [EmptyID3 EXCEPT !.TPE1 = a, !.TIT2 = t]

\* mp3_files and the counters of strip_metadata_from_files.
StripStart ==
  /\ pc = "idle" /\ mode \in {"keep_basics", "all"}
  /\ run' = run + 1
  /\ unprocessed' = [n \in 1..world.files |-> n]
  /\ i' = 1 /\ attempt' = 0
  /\ success_count' = 0 /\ failed_count' = 0
  /\ pc' = "strip_load"
  /\ ops' = {}
  /\ UNCHANGED <<env, others, disk, ledger, caches, exc, locals,
                 skipped_count, art_added_count, failed_files, bucket,
                 started, raised, saved, prev_all_success>>

\* audio = ID3(file_path): a file without a header counts as stripped
\* (ID3NoHeaderError), any other error goes to the handler; in keep_basics
\* mode the artist and title frames are put aside.
StripLoad ==
  /\ pc = "strip_load"
  /\ started' = started + 1
  /\ ops' = {Op("tag_read")}
  /\ \E io_error \in IoOutcomes("read") :
       IF io_error
       THEN /\ pc' = "strip_except" /\ exc' = <<"r", "e", "a", "d">>
            /\ UNCHANGED <<artist, title, audio_write, success_count, bucket>>
       ELSE IF ~disk[cur].hdr
       THEN /\ success_count' = success_count + 1
            /\ bucket' = [bucket EXCEPT ![cur] = @ \cup {"STRIPPED"}]
            /\ pc' = "strip_next" /\ exc' = exc
            /\ UNCHANGED <<artist, title, audio_write>>
       ELSE /\ audio_write' = disk[cur]
            /\ artist' = IF mode = "keep_basics" THEN disk[cur].TPE1 ELSE artist
            /\ title' = IF mode = "keep_basics" THEN disk[cur].TIT2 ELSE title
            /\ pc' = "strip_delete" /\ exc' = exc
            /\ UNCHANGED <<success_count, bucket>>
  /\ UNCHANGED <<env, others, disk, ledger, caches, run, unprocessed, i,
                 attempt, search_query, track_data, metadata, has_art,
                 failed_count, skipped_count, art_added_count, failed_files,
                 raised, saved, prev_all_success>>

\* audio.delete(), then in keep_basics mode the two frames are added again.
StripDelete ==
  /\ pc = "strip_delete"
  /\ \E io_error \in IoOutcomes("delete") :
       /\ disk' = [disk EXCEPT ![cur] = delete(@, io_error)]
       /\ IF io_error
          THEN /\ pc' = "strip_except" /\ exc' = <<"d", "e", "l">>
               /\ audio_write' = audio_write
               /\ ops' = {}
          ELSE /\ pc' = "strip_save" /\ exc' = exc
               /\ audio_write' = IF mode = "keep_basics"
                                 THEN Resurrect(artist, title) ELSE EmptyID3
               /\ ops' = {Op("tag_delete")}
  /\ UNCHANGED <<env, others, ledger, caches, run, unprocessed, i, attempt,
                 artist, title, search_query, track_data, metadata, has_art,
                 counts, bucket, started, raised, saved, prev_all_success>>

\* audio.save() and success_count += 1; a save that raises leaves the file
\* as the delete left it.
StripSave ==
  /\ pc = "strip_save"
  /\ \E io_error \in IoOutcomes("save") :
       /\ disk' = [disk EXCEPT ![cur] = save(@, audio_write, io_error)]
       /\ IF io_error
          THEN /\ pc' = "strip_except" /\ exc' = <<"s", "a", "v", "e">>
               /\ ops' = {}
               /\ UNCHANGED <<success_count, bucket>>
          ELSE /\ success_count' = success_count + 1
               /\ bucket' = [bucket EXCEPT ![cur] = @ \cup {"STRIPPED"}]
               /\ pc' = "strip_next" /\ exc' = exc
               /\ ops' = {Op("tag_save")}
  /\ UNCHANGED <<env, others, ledger, caches, run, unprocessed, i, attempt,
                 locals, failed_count, skipped_count, art_added_count,
                 failed_files, started, raised, saved, prev_all_success>>

\* `except Exception`: the last attempt counts the file as failed, the
\* first one sleeps and continues with the second.
StripException ==
  /\ pc = "strip_except"
  /\ raised' = raised + 1
  /\ IF IsLastAttempt(attempt)
     THEN /\ failed_count' = failed_count + 1
          /\ bucket' = [bucket EXCEPT ![cur] = @ \cup {"FAILED"}]
          /\ attempt' = attempt
          /\ pc' = "strip_next"
     ELSE /\ attempt' = attempt + 1
          /\ pc' = "strip_load"
          /\ UNCHANGED <<failed_count, bucket>>
  /\ exc' = None
  /\ ops' = {}
  /\ UNCHANGED <<env, others, disk, ledger, caches, run, unprocessed, i,
                 locals, success_count, skipped_count, art_added_count,
                 failed_files, started, saved, prev_all_success>>

\* progress.advance(task) and the next file; the function returns after the
\* last one.
StripNext ==
  /\ pc = "strip_next"
  /\ IF i < Len(unprocessed)
     THEN /\ i' = i + 1 /\ pc' = "strip_load"
          /\ started' = 0 /\ raised' = 0
     ELSE /\ i' = i /\ pc' = "done"
          /\ UNCHANGED <<started, raised>>
  /\ attempt' = 0
  /\ ops' = {}
  /\ UNCHANGED <<env, others, disk, ledger, caches, run, unprocessed, exc,
                 locals, counts, bucket, saved, prev_all_success>>

NextStrip ==
  \/ StripStart \/ StripLoad \/ StripDelete \/ StripSave \/ StripException
  \/ StripNext

\* The files a strip is run over: without a header, with both frames, with
\* an artist frame only, and with further frames.
StripFiles ==
  { [stem |-> StemPlain, tags |-> Untagged],
    [stem |-> StemPair, tags |-> TaggedBoth],
    [stem |-> StemPlain, tags |-> TaggedArtistOnly],
    [stem |-> StemPair, tags |-> TaggedRich] }

\* Reading, deleting and saving can each fail.
StripWorld == [PlainWorld EXCEPT !.io_error = {"read", "delete", "save"}]

InitStrip ==
  InitMode({StripWorld}, {o \in PlainOptions : ~o.use_gemini}, StripFiles,
           {"keep_basics", "all"})

\* --rm-metadata and --nuke over NumFiles files.
SpecStrip == InitStrip /\ [][NextStrip]_vars

\* ------------------------------------------------------- add_album_art_only
\* check_api_keys, load_spotify_cache, mp3_files and the counters of
\* add_album_art_only.
ArtOnlyStart ==
  /\ pc = "idle" /\ mode = "art_only"
  /\ run' = run + 1
  /\ LET passed == check_api_keys(keys_ok) IN
     /\ spotify_cache' = IF passed
                        THEN load_spotify_cache(spotify_cache, spotify_cache_file)
                        ELSE spotify_cache
     /\ unprocessed' = IF passed THEN [n \in 1..world.files |-> n] ELSE <<>>
     /\ i' = IF passed THEN 1 ELSE 0
     /\ pc' = IF passed THEN "art_load" ELSE "exit"
  /\ attempt' = 0
  /\ success_count' = 0 /\ failed_count' = 0
  /\ already_had_art' = 0 /\ no_metadata_count' = 0 /\ lyrics_added' = 0
  /\ ops' = {}
  /\ UNCHANGED <<env, mode, disk0, disk, ledger, spotify_cache_file,
                 spotify_artist_genre_cache, lastfm_track_genre_cache, exc,
                 locals, skipped_count, art_added_count, failed_files, bucket,
                 started, raised, saved, prev_all_success>>

\* audio = ID3(file_path) and the two tests that skip a file: it has a
\* picture, or it lacks an artist or a title.  A file without a header
\* raises ID3NoHeaderError, which `except Exception` catches.
ArtOnlyLoad ==
  /\ pc = "art_load"
  /\ started' = started + 1
  /\ ops' = {Op("tag_read")}
  /\ \E io_error \in IoOutcomes("read") :
       IF io_error \/ ~disk[cur].hdr
       THEN /\ pc' = "art_except"
            /\ exc' = IF io_error THEN <<"r", "e", "a", "d">>
                      ELSE <<"n", "o", "h", "d", "r">>
            /\ UNCHANGED <<artist, title, audio_write, already_had_art,
                           no_metadata_count, bucket>>
       ELSE /\ audio_write' = disk[cur]
            /\ exc' = exc
            /\ IF DOMAIN disk[cur].APIC # {}
               THEN /\ already_had_art' = already_had_art + 1
                    /\ bucket' = [bucket EXCEPT ![cur] = @ \cup {"HAD_ART"}]
                    /\ pc' = "art_next"
                    /\ UNCHANGED <<artist, title, no_metadata_count>>
               ELSE IF ~Truthy(disk[cur].TPE1) \/ ~Truthy(disk[cur].TIT2)
               THEN /\ no_metadata_count' = no_metadata_count + 1
                    /\ bucket' = [bucket EXCEPT ![cur] = @ \cup {"NO_METADATA"}]
                    /\ pc' = "art_next"
                    /\ UNCHANGED <<artist, title, already_had_art>>
               ELSE /\ artist' = disk[cur].TPE1 /\ title' = disk[cur].TIT2
                    /\ pc' = "art_fetch"
                    /\ UNCHANGED <<already_had_art, no_metadata_count, bucket>>
  /\ UNCHANGED <<env, mode, disk0, lyrics_added, disk, ledger, caches, run,
                 unprocessed, i, attempt, search_query, track_data, metadata,
                 has_art, counts, raised, saved, prev_all_success>>

\* art_data = get_album_art(...): with an image the picture is added and
\* success_count goes up; without one the last attempt counts the file as
\* failed and the first one continues with the second.
ArtOnlyFetch ==
  /\ pc = "art_fetch"
  /\ \E o \in world.search, download_ok \in world.download_ok :
       LET art_data == get_album_art(o, download_ok) IN
       /\ ops' = ArtSearchOps(CompactQuery(artist, title), o, download_ok)
       /\ IF art_data # NoArt
          THEN /\ audio_write' = AddArt(audio_write, art_data)
               /\ success_count' = success_count + 1
               /\ bucket' = [bucket EXCEPT ![cur] = @ \cup {"ART_ADDED"}]
               /\ pc' = "art_lyrics"
               /\ UNCHANGED <<failed_count, attempt>>
          ELSE IF IsLastAttempt(attempt)
          THEN /\ failed_count' = failed_count + 1
               /\ bucket' = [bucket EXCEPT ![cur] = @ \cup {"FAILED"}]
               /\ pc' = "art_next"
               /\ UNCHANGED <<audio_write, success_count, attempt>>
          ELSE /\ attempt' = attempt + 1
               /\ pc' = "art_load"
               /\ UNCHANGED <<audio_write, success_count, failed_count, bucket>>
  /\ UNCHANGED <<env, others, disk, ledger, caches, run, unprocessed, i, exc,
                 artist, title, search_query, track_data, metadata, has_art,
                 skipped_count, art_added_count, failed_files, started,
                 raised, saved, prev_all_success>>

\* The lyrics of a file that has none, when lyrics are asked for.
ArtOnlyLyrics ==
  /\ pc = "art_lyrics"
  /\ IF opts.fetch_lyrics /\ audio_write.USLT = None
     THEN \E o1 \in world.lyrics, o2 \in world.lyrics :
            LET r == get_lyrics(o1, o2) IN
            /\ ops' = HelperOps("genius", "genius_failed", r)
            /\ IF Truthy(r.value)
               THEN /\ audio_write' = [audio_write EXCEPT !.USLT = r.value]
                    /\ lyrics_added' = lyrics_added + 1
               ELSE UNCHANGED <<audio_write, lyrics_added>>
     ELSE /\ ops' = {}
          /\ UNCHANGED <<audio_write, lyrics_added>>
  /\ pc' = "art_save"
  /\ UNCHANGED <<env, mode, disk0, already_had_art, no_metadata_count, disk,
                 ledger, caches, run, unprocessed, i, attempt, exc, artist,
                 title, search_query, track_data, metadata, has_art, counts,
                 bucket, started, raised, saved, prev_all_success>>

\* audio.save(), the last statement of the try block.
ArtOnlySave ==
  /\ pc = "art_save"
  /\ \E io_error \in IoOutcomes("save") :
       /\ disk' = [disk EXCEPT ![cur] = save(@, audio_write, io_error)]
       /\ IF io_error
          THEN /\ pc' = "art_except" /\ exc' = <<"s", "a", "v", "e">>
               /\ ops' = {}
          ELSE /\ pc' = "art_next" /\ exc' = exc
               /\ ops' = {Op("tag_save")}
  /\ UNCHANGED <<env, others, ledger, caches, run, unprocessed, i, attempt,
                 locals, counts, bucket, started, raised, saved,
                 prev_all_success>>

\* `except Exception`: the last attempt counts the file as failed, the
\* first one sleeps and continues with the second.
ArtOnlyException ==
  /\ pc = "art_except"
  /\ raised' = raised + 1
  /\ IF IsLastAttempt(attempt)
     THEN /\ failed_count' = failed_count + 1
          /\ bucket' = [bucket EXCEPT ![cur] = @ \cup {"FAILED"}]
          /\ attempt' = attempt
          /\ pc' = "art_next"
     ELSE /\ attempt' = attempt + 1
          /\ pc' = "art_load"
          /\ UNCHANGED <<failed_count, bucket>>
  /\ exc' = None
  /\ ops' = {}
  /\ UNCHANGED <<env, others, disk, ledger, caches, run, unprocessed, i,
                 locals, success_count, skipped_count, art_added_count,
                 failed_files, started, saved, prev_all_success>>

\* progress.advance(task) and the next file; after the last one the search
\* cache is saved.
ArtOnlyNext ==
  /\ pc = "art_next"
  /\ IF i < Len(unprocessed)
     THEN /\ i' = i + 1 /\ pc' = "art_load"
          /\ started' = 0 /\ raised' = 0
          /\ spotify_cache_file' = spotify_cache_file
     ELSE /\ i' = i /\ pc' = "done"
          /\ spotify_cache_file' = spotify_cache
          /\ UNCHANGED <<started, raised>>
  /\ attempt' = 0
  /\ artist' = None /\ title' = None /\ audio_write' = EmptyID3
  /\ ops' = {}
  /\ UNCHANGED <<env, others, disk, ledger, spotify_cache,
                 spotify_artist_genre_cache, lastfm_track_genre_cache, run,
                 unprocessed, exc, search_query, track_data, metadata,
                 has_art, counts, bucket, saved, prev_all_success>>

NextArtOnly ==
  \/ ArtOnlyStart \/ ArtOnlyLoad \/ ArtOnlyFetch \/ ArtOnlyLyrics
  \/ ArtOnlySave \/ ArtOnlyException \/ ArtOnlyNext

\* A file with artist, title and lyrics, without a picture.
TaggedLyrics == [TaggedBoth EXCEPT !.USLT = <<"l", "a">>]

\* The files the art-only mode is run over.
ArtOnlyFiles ==
  { [stem |-> StemPlain, tags |-> Untagged],
    [stem |-> StemPair, tags |-> TaggedBoth],
    [stem |-> StemPair, tags |-> TaggedLyrics],
    [stem |-> StemPlain, tags |-> TaggedArtistOnly],
    [stem |-> StemPair, tags |-> TaggedCover] }

\* The cover search raises, finds nothing or finds a track with an image;
\* the download, the lyrics search, the read and the save can fail.
ArtOnlyWorld ==
  [PlainWorld EXCEPT
     !.search = {o \in SearchOutcomes : o.items \in {<<>>, <<TrackFull>>}},
     !.download_ok = BOOLEAN,
     !.lyrics = LyricsOutcomes,
     !.io_error = {"read", "save"}]

InitArtOnly ==
  InitMode({ArtOnlyWorld}, PlainOptions, ArtOnlyFiles, {"art_only"})

\* --skip-metadata over NumFiles files.
SpecArtOnly == InitArtOnly /\ [][NextArtOnly]_vars

\* The tags and genre labels the services list in the ranking worlds.
Rap == <<"r", "a", "p">>
TagPool ==
  { [name |-> Trap, count |-> 3], [name |-> Rap, count |-> 2],
    [name |-> Shoegaze, count |-> 5], [name |-> <<>>, count |-> 9],
    [name |-> <<"j", "a", "z", "z">>, count |-> 0] }
MaxTags == 3
TagLists ==
  UNION { {s \in [1..n -> TagPool] : \A a, b \in 1..n : a # b => s[a] # s[b]} :
          n \in 0..MaxTags }
GenrePool == {ClassicRock, ArtRock, Trap, Shoegaze}
MaxGenres == 2
GenreLists ==
  UNION { {s \in [1..n -> GenrePool] : \A a, b \in 1..n : a # b => s[a] # s[b]} :
          n \in 0..MaxGenres }

\* One file, one run; both tag-cloud calls answer with the list `tags`, and
\* the artist service answers each artist with one of the lists `genres`.
RankWorld(tags, genres) ==
  [CachesWorld EXCEPT
     !.search = {o \in SearchOutcomes :
                   ~o.raises /\ o.items \in {<<TrackFull>>, <<TrackDuo>>}},
     !.lastfm = { [kind |-> "ok", tags |-> tags] },
     !.artist = { [kind |-> "ok", genres |-> g] : g \in genres },
     !.batch_raises = {FALSE},
     !.io_error = {"read"},
     !.runs = 1]

\* Every tag list with artists that have no genres, and every pair of genre
\* lists with a tag cloud that has no tags.
InitRank ==
  InitWith({RankWorld(tags, {<<>>}) : tags \in TagLists}
             \cup {RankWorld(<<>>, GenreLists)},
           {o \in PlainOptions : o.use_gemini},
           {[stem |-> StemPlain, tags |-> Untagged]})

SpecRank == InitRank /\ [][Next]_vars

\* Every keyword of the normalizer's table, each as the label of the one
\* tag the tag-cloud service of a world answers with.
AllKeywords ==
  UNION { {mapping[r].keys[n] : n \in 1..Len(mapping[r].keys)} :
          r \in 1..Len(mapping) }

InitKeywords ==
  InitWith({GenreWorld(k) : k \in AllKeywords},
           {o \in PlainOptions : o.use_gemini},
           {[stem |-> StemPlain, tags |-> Untagged]})

SpecKeywords == InitKeywords /\ [][Next]_vars

\* ------------------------------------------------------------------ claims
\* The entries of failed_files for file f.
FailedEntries(f) == {k \in 1..Len(failed_files) : failed_files[k].file = f}

\* C1: every file that is not in the ledger at the start of a run ends in
\* exactly one of the buckets SUCCESS, SKIPPED, FAILED: no file is ever in two
\* buckets, each counter counts the files of its bucket, and at the end of
\* the run the three counters add up to the number of unprocessed files.
C1_OneBucketPerFile ==
  /\ \A f \in Files : Cardinality(bucket[f]) <= 1
  /\ success_count = Cardinality({f \in Files : "SUCCESS" \in bucket[f]})
  /\ skipped_count = Cardinality({f \in Files : "SKIPPED" \in bucket[f]})
  /\ failed_count = Cardinality({f \in Files : "FAILED" \in bucket[f]})
  /\ pc = "done" =>
       /\ \A f \in Range(unprocessed) : Cardinality(bucket[f]) = 1
       /\ \A f \in Files \ Range(unprocessed) : bucket[f] = {}
       /\ success_count + skipped_count + failed_count = Len(unprocessed)

\* A run of at least two files has ended with a success and a failure.
C1_Witness ==
  /\ pc = "done"
  /\ Len(unprocessed) >= 2
  /\ success_count >= 1
  /\ failed_count >= 1

\* C2: a file gets at most two attempts, the second one only after the first
\* raised; it ends FAILED exactly when both attempts raised, and then it has
\* exactly one entry in failed_files (none otherwise).
C2_TwoAttempts ==
  /\ started <= 2
  /\ raised <= started
  /\ started <= raised + 1
  /\ \A f \in Files :
       Cardinality(FailedEntries(f)) = IF "FAILED" \in bucket[f] THEN 1 ELSE 0
  /\ Len(failed_files) = Cardinality({f \in Files : "FAILED" \in bucket[f]})
  /\ (i > 0 /\ pc = "advance") => ("FAILED" \in bucket[cur] <=> raised = 2)
  /\ (i > 0 /\ pc \notin {"advance", "done"}) => "FAILED" \notin bucket[cur]

\* Both attempts of a file raised and the file is recorded as failed.
C2_Witness ==
  /\ i > 0
  /\ pc = "advance"
  /\ started = 2
  /\ raised = 2
  /\ "FAILED" \in bucket[cur]
  /\ Cardinality(FailedEntries(cur)) = 1

\* C3: once a file is in the SKIPPED bucket, no step of the run does
\* anything for it any more: no remote call, no tag read, no tag write, on
\* whichever attempt the skip happened.
C3_SkipIsFinal ==
  [][\A f \in Files :
       "SKIPPED" \in bucket[f] =>
         /\ disk'[f] = disk[f]
         /\ (i > 0 /\ cur = f) => (ops' = {} /\ started' \in {started, 0})]_vars

\* A file was skipped on its first attempt.
C3_Witness ==
  /\ i > 0
  /\ "SKIPPED" \in bucket[cur]
  /\ pc = "advance"
  /\ attempt = 0
  /\ started = 1

\* C4: the ledger gains a path only in an attempt whose tag save completed,
\* the path is the current file's and is not in the ledger yet; a file in
\* the ledger that the run worked on is in the SUCCESS bucket only, and no
\* path is in the ledger twice.
C4_LedgerAfterSave ==
  /\ [](/\ \A f \in Files :
            (IsProcessed(f, ledger) /\ bucket[f] # {}) => bucket[f] = {"SUCCESS"}
        /\ \A j \in 1..Len(ledger), k \in 1..Len(ledger) :
            ledger[j] = ledger[k] => j = k)
  /\ [][ledger' # ledger =>
          /\ i > 0
          /\ saved
          /\ disk[cur] = [audio_write EXCEPT !.hdr = TRUE]
          /\ cur \notin Range(ledger)
          /\ ledger' = Append(ledger, cur)
          /\ bucket[cur] = {}
          /\ bucket'[cur] = {"SUCCESS"}]_vars

\* A file entered the ledger on its second attempt, after a first one that
\* raised.
C4_Witness ==
  /\ i > 0
  /\ pc = "advance"
  /\ raised = 1
  /\ saved
  /\ cur \in Range(ledger)

\* C5: a run that starts after a run in which every file ended SUCCESS finds
\* no unprocessed file: it ends at once, performs no operation at all (no
\* remote call) and changes no file's tags.
C5_SecondRunIdle ==
  /\ [](prev_all_success => (pc = "done" /\ unprocessed = <<>> /\ ops = {}))
  /\ [][prev_all_success' => (disk' = disk /\ ops' = {} /\ ledger' = ledger)]_vars

\* A second run has started after a first run in which all files succeeded.
C5_Witness ==
  /\ prev_all_success
  /\ run = 2
  /\ pc = "done"
  /\ Len(ledger) = world.files

\* The search cache holds a response without items for query.
NegativeSearch(query) ==
  /\ CacheKey(query) \in DOMAIN spotify_cache
  /\ ~HasHit(spotify_cache[CacheKey(query)])

\* The track-genre cache holds "" for the pair of the current track.
NegativeLastfm ==
  LET k == LastfmKey(PrimaryArtist(track_data), track_data.name) IN
  /\ k \in DOMAIN lastfm_track_genre_cache
  /\ lastfm_track_genre_cache[k] = <<>>

\* The artist-genre cache holds [] for aid.
NegativeArtist(aid) ==
  /\ aid \in DOMAIN spotify_artist_genre_cache
  /\ spotify_artist_genre_cache[aid] = <<>>

\* C6: a key that is in a cache with a negative value is answered from the
\* cache as "no result" and the service is not contacted for it: a search
\* whose cached response has no items skips the file without a search call, a
\* pair cached as "" gives no tag-cloud genre without an HTTP call, and an
\* artist id cached as [] is in no batch or single artist lookup.
C6_NegativeEntriesShortCircuit ==
  [][/\ (pc = "isearch" /\ NegativeSearch(search_query)) =>
          /\ ~Did("search")'
          /\ spotify_cache' = spotify_cache
          /\ "SKIPPED" \in bucket'[cur]
     /\ (pc = "track" /\ NegativeSearch(FieldQuery(artist, title))) =>
          /\ ~Did("search")'
          /\ spotify_cache' = spotify_cache
          /\ "SKIPPED" \in bucket'[cur]
     /\ (pc \in {"genre", "genre_fallback"} /\ opts.lastfm_key /\ NegativeLastfm) =>
          /\ ~Did("lastfm")'
          /\ lastfm_track_genre_cache' = lastfm_track_genre_cache
          /\ pc = "genre" => pc' = "genre_artists"
          /\ pc = "genre_fallback" => metadata'.genre = Unknown
     /\ pc = "genre_artists" =>
          /\ \A aid \in ArtistIds :
               NegativeArtist(aid) =>
                 /\ OpOn("artists", aid) \notin ops'
                 /\ OpOn("artist", aid) \notin ops'
                 /\ spotify_artist_genre_cache'[aid] = <<>>
          /\ (\A aid \in Range(OrderedIds(track_data)) : NegativeArtist(aid)) =>
               /\ ops' = {Op("artist_genres")}
               /\ pc' = "genre_fallback" \/ metadata'.genre = Unknown]_vars

\* In a second run the artist lookup was answered from negative entries
\* alone, and the pair of the track is cached as "" for the lookup to come.
C6_Witness ==
  /\ run = 2
  /\ pc = "genre_fallback"
  /\ ops = {Op("artist_genres")}
  /\ \A aid \in Range(OrderedIds(track_data)) : NegativeArtist(aid)
  /\ NegativeLastfm

\* C7: a search call that raises leaves the search cache as it was, without
\* the key, and the file is skipped as for an absent result; the cache
\* changes during a run only by the one entry of a search call that returned
\* normally; a search for a key that is not cached contacts the service.
C7_FailedSearchNotCached ==
  [][/\ \A o \in ops' :
          o.op = "search_failed" =>
            /\ spotify_cache' = spotify_cache
            /\ CacheKey(o.key) \notin DOMAIN spotify_cache'
            /\ "SKIPPED" \in bucket'[cur]
     /\ (spotify_cache' # spotify_cache /\ pc \notin {"idle", "done", "exit"}) =>
          \E o \in ops' :
            /\ o.op = "search"
            /\ OpOn("search_failed", o.key) \notin ops'
            /\ CacheKey(o.key) \notin DOMAIN spotify_cache
            /\ DOMAIN spotify_cache' = DOMAIN spotify_cache \cup {CacheKey(o.key)}
            /\ \A k \in DOMAIN spotify_cache : spotify_cache'[k] = spotify_cache[k]
     /\ (pc = "isearch" /\ CacheKey(search_query) \notin DOMAIN spotify_cache) =>
          OpOn("search", search_query) \in ops'
     /\ (pc = "track"
           /\ CacheKey(FieldQuery(artist, title)) \notin DOMAIN spotify_cache) =>
          OpOn("search", FieldQuery(artist, title)) \in ops']_vars

\* The first run's only search, for the stem "x", raised, so nothing was
\* cached; the second run searches for "x" and contacts the service again.
C7_Witness ==
  /\ run = 2
  /\ i > 0
  /\ stem[cur] = StemPlain
  /\ ~opts.has_gemini_key
  /\ spotify_cache_file = EmptyMap
  /\ OpOn("search", StemPlain) \in ops

\* C8: a tag-cloud lookup in which no call was answered with status 200
\* leaves the pair absent from the track-genre cache.
C8_FailedLookupNotCached ==
  \A o \in ops :
    o.op = "lastfm_failed" => o.key \notin DOMAIN lastfm_track_genre_cache

\* A tag-cloud lookup without any answer of status 200 has just written ""
\* for its pair.
C8_Witness ==
  \E o \in ops :
    /\ o.op = "lastfm_failed"
    /\ o.key \in DOMAIN lastfm_track_genre_cache
    /\ lastfm_track_genre_cache[o.key] = <<>>

\* C9: an artist id whose single lookup raised, after the batch lookup
\* raised, stays absent from the artist-genre cache.
C9_FailedArtistNotCached ==
  \A o \in ops :
    o.op = "artist_failed" => o.key \notin DOMAIN spotify_artist_genre_cache

\* The single lookup of an artist id has just raised and the id is cached
\* with [].
C9_Witness ==
  \E o \in ops :
    /\ o.op = "artist_failed"
    /\ NegativeArtist(o.key)

\* Both the artist tag and the title tag of file f are present and non-empty.
BothTags(f) == disk[f].hdr /\ Truthy(disk[f].TPE1) /\ Truthy(disk[f].TIT2)

\* C10: when both tags are present and non-empty the pair is the two tags,
\* and the tag read is the only thing done to get it: the filename parsing,
\* the cleanup call and the free-text search are never reached.  Otherwise
\* neither tag is used: the pair is the two parts of the filename split, or,
\* without a split, the first artist and the name of the cached search hit.
C10_TagsOnlyWhenBoth ==
  i > 0 =>
    /\ pc \in {"parse", "clean", "isearch", "check"} => ~BothTags(cur)
    /\ pc = "track" =>
         IF BothTags(cur)
         THEN /\ artist = disk[cur].TPE1
              /\ title = disk[cur].TIT2
              /\ ops = {Op("tag_read")}
         ELSE LET parts == SplitOnce(stem[cur])
                  k == CacheKey(search_query)
              IN IF Len(parts) = 2
                 THEN <<artist, title>> = parts
                 ELSE /\ k \in DOMAIN spotify_cache
                      /\ HasHit(spotify_cache[k])
                      /\ artist = spotify_cache[k].items[1].artists[1].name
                      /\ title = spotify_cache[k].items[1].name

\* A file with an artist tag and no title tag has its pair from the filename.
C10_Witness ==
  /\ i > 0
  /\ pc = "track"
  /\ disk[cur] = TaggedArtistOnly
  /\ <<artist, title>> = SplitOnce(stem[cur])


\* C11: a file whose tags do not give both artist and title and whose stem
\* contains " - " gets the pair (text before the first " - ", text after it)
\* by the filename parsing alone: the cleanup and the free-text search are
\* never reached for it.
C11_FilenameSplit ==
  i > 0 =>
    LET s == stem[cur] IN
    /\ pc \in {"clean", "isearch"} => ~Contains(s, Delim)
    /\ (pc = "check" /\ Contains(s, Delim)) =>
         /\ ~BothTags(cur)
         /\ s = artist \o Delim \o title
         /\ ~Contains(SubSeq(s, 1, Len(artist) + Len(Delim) - 1), Delim)
         /\ ops = {Op("parse")}

\* The stem "Q - B - C" of a file with an empty title tag gave ("Q", "B - C").
C11_Witness ==
  /\ i > 0
  /\ pc = "check"
  /\ stem[cur] = StemTwice
  /\ disk[cur] = TaggedEmptyTitle
  /\ artist = <<"Q">>
  /\ title = <<"B", " ", "-", " ", "C">>


\* The search-cache key of a track search with limit 1 for query.
TrackKey(query) == query \o <<"|", "t", "r", "a", "c", "k", "|", "1">>

\* C12: the cleanup is called only with a Gemini key, only right after the
\* filename parsing that follows the attempt's tag read (so once per
\* attempt); its answer is the query exactly when it did not fail, is
\* non-empty and has at most 100 characters, else the query is the raw stem;
\* the free-text search looks the query up in the search cache under
\* "query|track|1" and calls the service only when the key is absent; a hit
\* sets the pair to the first artist's name and the name of the first item.
C12_SearchFallback ==
  /\ [](i > 0 =>
          /\ pc = "parse" => ops = {Op("tag_read")}
          /\ pc = "clean" =>
               (opts.has_gemini_key /\ ops = {Op("parse")}
                  /\ search_query = stem[cur])
          /\ (pc = "isearch" /\ ~opts.has_gemini_key) =>
               (ops = {Op("parse")} /\ search_query = stem[cur]))
  /\ [][/\ Did("gemma")' =>
            /\ pc = "clean"
            /\ pc' = "isearch"
            /\ Cardinality({o \in ops' : o.op = "gemma"}) = 1
        /\ pc = "clean" =>
            \E o \in ops' :
              /\ o.op = "gemma"
              /\ search_query' =
                   IF ~Did("gemma_failed")' /\ o.key # <<>> /\ Len(o.key) <= 100
                   THEN o.key ELSE stem[cur]
        /\ pc = "isearch" =>
            LET k == TrackKey(search_query) IN
            /\ OpOn("cache_lookup", search_query) \in ops'
            /\ OpOn("search", search_query) \in ops' <=> k \notin DOMAIN spotify_cache
            /\ (k \in DOMAIN spotify_cache' /\ spotify_cache'[k].items # <<>>
                  /\ spotify_cache'[k].items[1].wellformed) =>
                 /\ artist' = spotify_cache'[k].items[1].artists[1].name
                 /\ title' = spotify_cache'[k].items[1].name
                 /\ pc' = "check"]_vars

\* The cleanup answered with exactly 100 characters, they became the query
\* and the search for them found the pair.
C12_Witness ==
  /\ i > 0
  /\ pc = "check"
  /\ search_query = JustFits
  /\ OpOn("search", JustFits) \in ops
  /\ Truthy(artist)
  /\ Truthy(title)


\* C13: when the free-text search for a file (no usable tags, no delimiter
\* in the stem) has no items, the file is skipped, not failed: skipped_count
\* grows by one, failed_count and failed_files stay, no tag is saved, the
\* ledger stays, and the attempt loop is left.
C13_NoResultIsSkipped ==
  /\ [](i > 0 =>
          /\ pc = "isearch" =>
               (~BothTags(cur) /\ ~Contains(stem[cur], Delim) /\ ~saved)
          /\ "SKIPPED" \in bucket[cur] =>
               (bucket[cur] = {"SKIPPED"} /\ ~saved /\ cur \notin Range(ledger)
                  /\ FailedEntries(cur) = {}))
  /\ [][(/\ pc = "isearch"
         /\ TrackKey(search_query) \in DOMAIN spotify_cache'
         /\ spotify_cache'[TrackKey(search_query)].items = <<>>) =>
          /\ skipped_count' = skipped_count + 1
          /\ failed_count' = failed_count
          /\ failed_files' = failed_files
          /\ bucket'[cur] = {"SKIPPED"}
          /\ disk' = disk
          /\ ledger' = ledger
          /\ ~Did("tag_save")'
          /\ pc' = "advance"]_vars

\* An untagged file "x.mp3" was skipped after a search without items.
C13_Witness ==
  /\ i > 0
  /\ pc = "advance"
  /\ stem[cur] = StemPlain
  /\ disk[cur] = Untagged
  /\ Did("free_search")
  /\ TrackKey(search_query) \in DOMAIN spotify_cache
  /\ spotify_cache[TrackKey(search_query)].items = <<>>
  /\ bucket[cur] = {"SKIPPED"}
  /\ skipped_count = 1
  /\ failed_count = 0


\* C14: with a pair (artist, title) the cached search for
\* "artist:X track:Y" is made; when it has no hit (no answer, or no items)
\* the file is skipped in that step, with nothing but the search done, and
\* nothing is done for the file afterwards: no genre resolution, analysis,
\* lyrics search, art fetch or tag write.
C14_NoTrackIsSkipped ==
  /\ [](i > 0 => (pc = "track" => (Truthy(artist) /\ Truthy(title))))
  /\ [][pc = "track" =>
          LET q == <<"a", "r", "t", "i", "s", "t", ":">> \o artist
                     \o <<" ", "t", "r", "a", "c", "k", ":">> \o title
              k == TrackKey(q)
          IN
          /\ OpOn("cache_lookup", q) \in ops'
          /\ OpOn("search", q) \in ops' <=> k \notin DOMAIN spotify_cache
          /\ (k \notin DOMAIN spotify_cache' \/ spotify_cache'[k].items = <<>>) =>
               /\ bucket'[cur] = {"SKIPPED"}
               /\ skipped_count' = skipped_count + 1
               /\ pc' = "advance"
               /\ \A o \in ops' :
                    o.op \in {"cache_lookup", "search", "search_failed",
                              "field_search"}
               /\ metadata' = metadata
               /\ audio_write' = audio_write
               /\ disk' = disk]_vars
  /\ [][(i > 0 /\ "SKIPPED" \in bucket[cur]) =>
          (ops' = {} /\ disk' = disk /\ ledger' = ledger)]_vars

\* A file with both tags was skipped because the re-search had no hit.
C14_Witness ==
  /\ i > 0
  /\ pc = "advance"
  /\ disk[cur] = TaggedBoth
  /\ Did("field_search")
  /\ bucket[cur] = {"SKIPPED"}
  /\ metadata = EmptyMetadata


\* The track-genre cache holds a genre for the pair of the current track.
PositiveLastfm ==
  LET k == LastfmKey(PrimaryArtist(track_data), track_data.name) IN
  /\ k \in DOMAIN lastfm_track_genre_cache
  /\ lastfm_track_genre_cache[k] # <<>>

\* C15: with a tag-cloud key, when the tag-cloud lookup has a genre for
\* (primary artist, title), that genre is the file's genre, the artist
\* lookup is not entered (no batch call, no single call) and the
\* artist-genre cache stays as it was; the artist lookup is only ever
\* entered without a tag-cloud genre.
C15_TagCloudWins ==
  /\ [](pc = "genre_artists" => ~(opts.lastfm_key /\ PositiveLastfm))
  /\ [][(pc = "genre" /\ opts.lastfm_key /\ PositiveLastfm') =>
          /\ metadata'.genre =
               lastfm_track_genre_cache'[LastfmKey(PrimaryArtist(track_data),
                                                   track_data.name)]
          /\ pc' = "analysis"
          /\ spotify_artist_genre_cache' = spotify_artist_genre_cache
          /\ ~Did("artists")' /\ ~Did("artist")' /\ ~Did("artist_genres")']_vars
  /\ [][(Did("artists")' \/ Did("artist")' \/ Did("artist_genres")'
          \/ spotify_artist_genre_cache' # spotify_artist_genre_cache) =>
          pc = "genre_artists"]_vars

\* The tag "trap" of the tag-cloud service made the genre Hip-Hop, with the
\* artist-genre cache still empty.
C15_Witness ==
  /\ pc = "analysis"
  /\ Did("lastfm")
  /\ metadata.genre = <<"H", "i", "p", "-", "H", "o", "p">>
  /\ spotify_artist_genre_cache = EmptyMap

\* No genre came out of the artist-genre cache for the artists of the current
\* track: each id is absent, or cached as [] or as null.
NoArtistGenres ==
  \A aid \in Range(OrderedIds(track_data)) :
    \/ aid \notin DOMAIN spotify_artist_genre_cache
    \/ spotify_artist_genre_cache[aid] \in {<<>>, None}

\* C16: genre resolution never raises into the file's exception handler and
\* always leaves a genre string: without a tag-cloud genre (no key, a failed
\* call or no usable tag) the artist lookup is entered; when the artist
\* lookup yields no genre (failed calls, empty lists) the tag-cloud service
\* is asked again if there is a key; and when that gives nothing either, or
\* there is no key, the genre is "Unknown".
C16_GenreNeverAborts ==
  /\ [](pc = "analysis" => metadata.genre \notin {None, <<>>})
  /\ [][(pc \in {"genre", "genre_artists", "genre_fallback"}) =>
          /\ pc' \in {"genre_artists", "genre_fallback", "analysis"}
          /\ UNCHANGED <<raised, exc, bucket>>]_vars
  /\ [][(pc = "genre" /\ ~(opts.lastfm_key /\ PositiveLastfm')) =>
          pc' = "genre_artists"]_vars
  /\ [][(pc = "genre_artists" /\ NoArtistGenres') =>
          IF opts.lastfm_key
          THEN pc' = "genre_fallback"
          ELSE /\ pc' = "analysis"
               /\ metadata'.genre = <<"U", "n", "k", "n", "o", "w", "n">>]_vars
  /\ [][pc = "genre_fallback" =>
          /\ pc' = "analysis"
          /\ ~PositiveLastfm' =>
                metadata'.genre = <<"U", "n", "k", "n", "o", "w", "n">>]_vars

\* Both sources failed for a file: the tag-cloud call of the last lookup
\* failed, the artist cache holds no genre (the single lookup stored null
\* after the batch call raised), and the genre is "Unknown".
C16_Witness ==
  /\ pc = "analysis"
  /\ Did("lastfm_failed")
  /\ NoArtistGenres
  /\ \E aid \in DOMAIN spotify_artist_genre_cache :
        spotify_artist_genre_cache[aid] = None
  /\ metadata.genre = <<"U", "n", "k", "n", "o", "w", "n">>

\* The label of the one tag the tag-cloud service of this world answers with.
WorldLabel ==
  CHOOSE label \in GenreLabels :
    \E o \in world.lastfm :
      o.kind = "ok" /\ o.tags = <<[name |-> label, count |-> 3]>>

\* C17: the genre normalizer maps "hip-hop", "Trap" and "UK drill" to
\* "Hip-Hop" and a label without keyword, "Shoegaze", to its title-cased
\* form: a genre resolved from a single tag with one of these labels is the
\* genre stated for the label.
C17_NormalizerExamples ==
  (pc = "analysis" /\ Did("lastfm") /\ PositiveLastfm) =>
     /\ WorldLabel \in {HipHopLabel, TrapLabel, UKDrill} =>
           metadata.genre = <<"H", "i", "p", "-", "H", "o", "p">>
     /\ WorldLabel = ShoegazeLabel =>
           metadata.genre = <<"S", "h", "o", "e", "g", "a", "z", "e">>

\* The tag "UK drill" was resolved to the genre "Uk Drill".
C17_Witness ==
  /\ pc = "analysis" /\ Did("lastfm") /\ PositiveLastfm
  /\ WorldLabel = UKDrill
  /\ metadata.genre = <<"U", "k", " ", "D", "r", "i", "l", "l">>

\* What the normalizer does with the four labels: "UK drill" holds none of
\* the keywords of the Hip-Hop row and is title-cased like "Shoegaze".
C17_NormalizerAsCoded ==
  (pc = "analysis" /\ Did("lastfm") /\ PositiveLastfm) =>
     /\ WorldLabel \in {HipHopLabel, TrapLabel} =>
           metadata.genre = <<"H", "i", "p", "-", "H", "o", "p">>
     /\ WorldLabel = UKDrill =>
           metadata.genre = <<"U", "k", " ", "D", "r", "i", "l", "l">>
     /\ WorldLabel = ShoegazeLabel =>
           metadata.genre = <<"S", "h", "o", "e", "g", "a", "z", "e">>

\* The file being processed has a picture attached on durable storage.
FileHasArt == disk[cur].hdr /\ DOMAIN disk[cur].APIC # {}

\* C18: in the art block an image download or an art search is made if and
\* only if not no_album_art and (force_album_art or the file has no picture);
\* downloads and art searches are made nowhere else, and never with
\* no_album_art set.
C18_ArtDecision ==
  /\ [][pc = "art" =>
          ((Did("image")' \/ Did("art_search")') <=>
             (~opts.no_album_art /\ (opts.force_album_art \/ ~FileHasArt)))]_vars
  /\ [][(Did("image")' \/ Did("art_search")') =>
          (pc = "art" /\ ~opts.no_album_art)]_vars

\* With force_album_art an image was downloaded for a file that has a
\* picture.
C18_Witness ==
  /\ pc = "write" /\ Did("image")
  /\ opts.force_album_art /\ ~opts.no_album_art /\ FileHasArt

\* C19: with force_album_art, a file that has a picture and a new image
\* obtained, the old pictures are removed before the new one is added: the
\* container then holds exactly one picture, the one just downloaded, the
\* frames written afterwards leave it alone, and the save puts exactly that
\* picture into the file.
C19_ForceReplacesArt ==
  /\ [][(pc = "art" /\ opts.force_album_art /\ FileHasArt
          /\ art_added_count' # art_added_count) =>
          \E o \in ops' :
            /\ o.op = "image"
            /\ audio_write'.APIC = [d \in {"Cover"} |-> o.key]]_vars
  /\ [][pc = "write" => audio_write'.APIC = audio_write.APIC]_vars
  /\ [][(pc = "save" /\ pc' = "insert") =>
          disk'[cur].APIC = audio_write.APIC]_vars

\* Under force_album_art the picture "oldpic" of the file has given way to
\* the image just downloaded, the only picture of the container to be saved.
C19_Witness ==
  /\ pc = "write" /\ opts.force_album_art
  /\ disk[cur].APIC = [d \in {"Front"} |-> "oldpic"]
  /\ audio_write.APIC = [d \in {"Cover"} |-> "url1"]

\* The characters c of text s.
CountOf(s, c) == Len(SelectSeq(s, LAMBDA x : x = c))

\* The query of an art search is compact: a title of at most MaxTitleLen
\* characters without quotes (the four quotes are those around the title and
\* the artist), and one artist, the text before the first comma.
CompactArtSearches ==
  \A o \in ops :
    o.op = "art_search" =>
      /\ CountOf(o.key, "\"") = 4
      /\ CountOf(o.key, ",") = 0
      /\ Len(o.key) <= MaxTitleLen + Len(metadata.artist) + 18

\* C20: the compact art search (title without quotes and of at most 120
\* characters, primary artist only) is issued only in the art block and only
\* when the TrackRecord has no image descriptors: with images in the
\* TrackRecord no search call is made for art.
C20_SearchOnlyWithoutImages ==
  /\ [](CompactArtSearches)
  /\ [][Did("art_search")' =>
          (pc = "art" /\ track_data.album.images = <<>>)]_vars

\* An art search was made for a TrackRecord that carries an image: the
\* download of that image had failed.
C20_Witness ==
  /\ pc = "write" /\ Did("art_search")
  /\ track_data.album.images # <<>>
  /\ OpOn("image", track_data.album.images[1]) \in ops

\* What the art block does: the compact search is issued exactly when the
\* images of the TrackRecord gave no picture, because there are none or
\* because the download of the first failed.
C20_SearchAfterFailedDownload ==
  /\ [](CompactArtSearches)
  /\ [][Did("art_search")' =>
          /\ pc = "art"
          /\ \/ track_data.album.images = <<>>
             \/ OpOn("image", track_data.album.images[1]) \in ops']_vars
  /\ [][(pc = "art" /\ Did("image")' /\ ~Did("art_search")') =>
          /\ track_data.album.images # <<>>
          /\ audio_write'.APIC["Cover"] = track_data.album.images[1]]_vars

\* C21: when art should be fetched and no art is obtained (a failed
\* download, a search without result), process_files records the event in a
\* counter other than failed_count, does not count the file as failed and
\* goes on to write the resolved metadata.
C21_NoArtIsCounted ==
  [][(pc = "art" /\ Did("no_art")') =>
       /\ <<success_count, skipped_count, art_added_count>>'
            # <<success_count, skipped_count, art_added_count>>
       /\ UNCHANGED <<failed_count, failed_files>>
       /\ pc' = "write"]_vars

\* The download of the track's image failed and the art search gave no
\* picture either: the attempt goes on to write the tags, and no counter of
\* process_files has moved.
C21_Witness ==
  /\ pc = "write" /\ Did("no_art") /\ Did("image_failed")
  /\ success_count = 0 /\ failed_count = 0 /\ skipped_count = 0
  /\ art_added_count = 0 /\ failed_files = <<>>

\* What process_files does when no art is obtained: no counter moves, the
\* file is not failed, and the tags are written and saved without a picture
\* added.
C21_NoArtLeavesNoTrace ==
  /\ [][(pc = "art" /\ Did("no_art")') =>
          /\ UNCHANGED <<counts, audio_write, exc>>
          /\ pc' = "write"]_vars
  /\ [][pc = "write" =>
          /\ pc' = "save"
          /\ audio_write'.TPE1 = metadata.artist
          /\ audio_write'.TIT2 = metadata.title
          /\ audio_write'.TCON = metadata.genre]_vars

\* The file being processed holds embedded lyrics on durable storage.
FileHasLyrics == disk[cur].hdr /\ disk[cur].USLT # None

\* C22: the lyrics search is run only for a file without embedded lyrics:
\* for a file that holds lyrics the lyrics service is not called, and the
\* save leaves the lyrics field as it was.
C22_LyricsOnlyWhenMissing ==
  /\ [][(pc = "lyrics" /\ FileHasLyrics) => ~Did("genius")']_vars
  /\ [][(pc = "save" /\ FileHasLyrics) => disk'[cur].USLT = disk[cur].USLT]_vars

\* The lyrics service was called for a file whose lyrics field holds "la".
C22_Witness ==
  /\ pc = "open" /\ Did("genius")
  /\ disk[cur].USLT = <<"l", "a">>

\* What process_files does: with fetch_lyrics the lyrics service is called
\* for every file that reaches the step, whatever the file holds, and lyrics
\* found are the lyrics saved.
C22_LyricsAlwaysSearched ==
  /\ [][pc = "lyrics" => (Did("genius")' <=> opts.fetch_lyrics)]_vars
  /\ [][(pc = "save" /\ pc' = "insert" /\ metadata.lyrics # None) =>
          disk'[cur].USLT = metadata.lyrics]_vars

\* C23: no outcome of the AI analysis, the lyrics search or the art fetch
\* raises into the file's exception handler: from each of the three steps
\* the attempt goes on, so none of them makes a retry or a FAILED file.
C23_EnrichmentNeverEscalates ==
  [][(pc \in {"analysis", "lyrics", "art"}) =>
       /\ pc' \in {"lyrics", "open", "art", "write"}
       /\ UNCHANGED <<exc, raised, failed_count, failed_files>>]_vars

\* A file is FAILED with the error of metadata.update: in its last attempt
\* the analysis answered with JSON that is not an object.
C23_Witness ==
  /\ pc = "advance"
  /\ "FAILED" \in bucket[cur]
  /\ Len(failed_files) = 1
  /\ failed_files[1].error = <<"t", "y", "p", "e">>

\* What the code does: only the analysis can raise into the handler, and
\* only with a truthy value that is not a mapping; the lyrics search and the
\* art block never do.
C23_OnlyAnalysisEscalates ==
  /\ [][(pc \in {"lyrics", "art"}) =>
          /\ pc' \in {"open", "write"}
          /\ UNCHANGED <<exc, raised, failed_count, failed_files>>]_vars
  /\ [][(pc = "analysis" /\ pc' = "except") =>
          /\ opts.use_gemini /\ Did("gemini")'
          /\ exc' = <<"t", "y", "p", "e">>]_vars

\* The fields of metadata taken from the TrackRecord and the genre resolver.
ResolvedKeys == {"artist", "title", "album", "album_artist", "track_number",
                 "year", "genre"}

\* C24: the analysis contributes to metadata only as a record of the shape
\* {bpm, key, mood, danceability, popularity}: the analysis step changes at
\* most these five fields, and changes them only to the values of an answer
\* of exactly that shape, so artist, title, album, album artist, track
\* number, year and genre stay as resolved.
C24_AnalysisKeepsResolvedFields ==
  [][pc = "analysis" =>
       /\ \A k \in ResolvedKeys : metadata'[k] = metadata[k]
       /\ metadata' # metadata =>
            \A k \in AnalysisKeys : metadata'[k] = <<"7">>]_vars

\* The genre "X" of an analysis answer {genre, bpm} has been saved as the
\* file's genre.
C24_Witness ==
  /\ pc = "insert" /\ Did("tag_save")
  /\ metadata.genre = <<"X">>
  /\ disk[cur].TCON = <<"X">>

\* What the code does: every key of a JSON object the analysis answers with
\* replaces or adds the metadata entry of that name.
C24_AnalysisUpdatesAnyKey ==
  [][(pc = "analysis" /\ pc' = "lyrics") =>
       \/ metadata' = metadata
       \/ \E o \in world.analysis :
            /\ o.kind = "dict"
            /\ metadata' = Update(metadata, o.fields)]_vars

SecondCall(name) == \E o \in ops : o.op = name /\ o.n = 2

\* C27: a transient error at a remote call site is retried once at that
\* site before the result degrades: in every step in which a call of the
\* track search, the tag-cloud lookup, the artist lookup (batch or single),
\* the AI cleanup, the AI analysis, the lyrics search or the image download
\* failed, a second call was made at the same site.
C27_TransientErrorsRetriedOnce ==
  /\ Did("search_failed") => SecondCall("search")
  /\ Did("lastfm_failed") => SecondCall("lastfm")
  /\ Did("batch_failed") => SecondCall("artists")
  /\ Did("artist_failed") => SecondCall("artist")
  /\ Did("gemma_failed") => SecondCall("gemma")
  /\ Did("gemini_failed") => SecondCall("gemini")
  /\ Did("genius_failed") => SecondCall("genius")
  /\ Did("image_failed") => SecondCall("image")

\* The one search call of a file raised and the file was skipped at once.
C27_Witness ==
  /\ Did("search_failed")
  /\ Cardinality({o \in ops : o.op = "search"}) = 1
  /\ "SKIPPED" \in bucket[cur]

\* What the code does: the AI analysis and the lyrics search try a second
\* time after a failed first try; the other call sites call once.
C27_OnlyHelpersRetry ==
  /\ Did("gemini_failed") => SecondCall("gemini")
  /\ Did("genius_failed") => SecondCall("genius")
  /\ \A site \in {"search", "lastfm", "artists", "artist", "gemma", "image",
                   "art_search"} : ~SecondCall(site)

\* The last step put the current file into SKIPPED.
NewlySkipped ==
  /\ i \in 1..Len(unprocessed)
  /\ "SKIPPED" \in bucket'[cur] /\ "SKIPPED" \notin bucket[cur]

\* C28: a file becomes SKIPPED only when no data exists: no pair of artist
\* and title could be derived, or a search was answered (by the service or
\* from the cache) with zero hits; a search call that raised does not make
\* the file SKIPPED.
C28_SkippedOnlyWithoutData ==
  [][NewlySkipped =>
       /\ ~Did("search_failed")'
       /\ \/ pc = "check" /\ PairMissing(artist, title)
          \/ /\ pc \in {"isearch", "track"}
             /\ \E o \in ops' :
                  /\ o.op = "cache_lookup"
                  /\ CacheKey(o.key) \in DOMAIN spotify_cache'
                  /\ ~HasHit(spotify_cache'[CacheKey(o.key)])]_vars

\* The field search "artist:Q track:B" raised and the file is SKIPPED, with
\* no exception counted and no answer for the query in the cache.
C28_Witness ==
  /\ pc = "advance" /\ "SKIPPED" \in bucket[cur]
  /\ Did("field_search") /\ Did("search_failed")
  /\ raised = 0 /\ failed_count = 0
  /\ CacheKey(FieldQuery(artist, title)) \notin DOMAIN spotify_cache

\* What the code does: a search that raised is treated like a search
\* without hits: the file is skipped at once, outside the exception handler.
C28_RaisedSearchSkips ==
  /\ [][((pc \in {"isearch", "track"}) /\ Did("search_failed")') =>
          /\ NewlySkipped
          /\ pc' = "advance"
          /\ skipped_count' = skipped_count + 1
          /\ UNCHANGED <<raised, failed_count, exc, spotify_cache>>]_vars
  /\ [][NewlySkipped =>
          \/ Did("search_failed")'
          \/ pc = "check" /\ PairMissing(artist, title)
          \/ /\ pc \in {"isearch", "track"}
             /\ \E o \in ops' :
                  /\ o.op = "cache_lookup"
                  /\ CacheKey(o.key) \in DOMAIN spotify_cache'
                  /\ ~HasHit(spotify_cache'[CacheKey(o.key)])]_vars


\* ---------------------------------------------------------------------- C29
\* C29: every track search sent to the search service is made in a step that
\* first looks the same query up in the search-result cache, and is sent only
\* when the cache has no entry under the key of that query; no track search
\* bypasses the cache.
C29_NoSearchBypassesCache ==
  [][\A o \in ops' :
       o.op \in {"search", "art_search"} =>
         /\ OpOn("cache_lookup", o.key) \in ops'
         /\ CacheKey(o.key) \notin DOMAIN spotify_cache]_vars

\* The cover search of get_album_art has been sent for a file whose track has
\* no image, and the step made no lookup in the cache.
C29_Witness ==
  /\ pc = "write" /\ Did("art_search")
  /\ \A o \in ops : o.op # "cache_lookup"
  /\ \E o \in ops : o.op = "art_search" /\ CacheKey(o.key) \notin DOMAIN spotify_cache

\* As coded: the identity and the track search go through the cache (lookup
\* first, request only on a miss, the answer stored unless the request
\* raised); the cover search is sent without a lookup and is never stored.
C29_OnlyCoverSearchBypasses ==
  /\ [][\A o \in ops' :
          o.op = "search" =>
            /\ OpOn("cache_lookup", o.key) \in ops'
            /\ CacheKey(o.key) \notin DOMAIN spotify_cache
            /\ (OpOn("search_failed", o.key) \notin ops' =>
                  CacheKey(o.key) \in DOMAIN spotify_cache')]_vars
  /\ [][\A o \in ops' :
          (o.op = "cache_lookup" /\ CacheKey(o.key) \in DOMAIN spotify_cache) =>
            OpOn("search", o.key) \notin ops']_vars
  /\ [][Did("art_search")' =>
          /\ pc = "art"
          /\ \A o \in ops' : o.op # "cache_lookup"
          /\ spotify_cache' = spotify_cache]_vars


\* ---------------------------------------------------------------------- C30
\* A search of this step was answered by the cache, under a key that the
\* cache file of an earlier run holds.
AnsweredFromFile ==
  \E o \in ops :
    /\ o.op = "cache_lookup"
    /\ OpOn("search", o.key) \notin ops
    /\ CacheKey(o.key) \in DOMAIN spotify_cache_file

\* C30: when the run is started with --no-cache, no search is answered from
\* an entry persisted by an earlier run, and the search cache file is not
\* written at the end of the run.
C30_NoCacheDisablesCache ==
  /\ [](opts.no_cache => ~AnsweredFromFile)
  /\ [][opts.no_cache => spotify_cache_file' = spotify_cache_file]_vars

\* A second run with --no-cache takes a file again (its ledger insert failed
\* in the first run) and gets the track of its field search from the cache
\* file the first run wrote.
C30_Witness ==
  /\ opts.no_cache /\ run = 2
  /\ pc = "genre" /\ Did("field_search") /\ AnsweredFromFile
  /\ track_data # NoTrack
  /\ spotify_cache_file # EmptyMap

\* As coded: with and without --no-cache a run starts from the entries of
\* the cache file and writes its in-memory cache to the file at its end.
C30_NoCacheChangesNothing ==
  /\ [][(run' = run + 1 /\ pc' # "exit") =>
          spotify_cache' = spotify_cache_file]_vars
  /\ [][(pc = "advance" /\ pc' = "done") =>
          spotify_cache_file' = spotify_cache]_vars
  /\ [][\A o \in ops' :
          (o.op = "cache_lookup" /\ CacheKey(o.key) \in DOMAIN spotify_cache) =>
            OpOn("search", o.key) \notin ops']_vars


\* ---------------------------------------------------------------------- C32
\* The current file has just been counted as SUCCESS.
AtSuccess ==
  /\ pc = "advance" /\ i \in 1..Len(unprocessed)
  /\ "SUCCESS" \in bucket[unprocessed[i]]

\* The seven resolved fields of the container are the values of metadata.
HoldsResolved(audio, md) ==
  /\ audio.TPE1 = md.artist /\ audio.TIT2 = md.title
  /\ audio.TALB = md.album /\ audio.TPE2 = md.album_artist
  /\ audio.TCON = md.genre /\ audio.TDRC = md.year
  /\ audio.TRCK = md.track_number

\* C32: after a file reaches SUCCESS the persisted file has no comment field
\* when comment stripping is on, has exactly the comment fields it had
\* before the write when keep_comments is set, and its artist, title, album,
\* album artist, genre, year and track number hold the resolved values.
C32_WriteReplacesFields ==
  /\ [](AtSuccess =>
          /\ HoldsResolved(disk[cur], metadata)
          /\ (~opts.keep_comments => disk[cur].COMM = {}))
  /\ [][opts.keep_comments =>
          \A f \in Files : disk'[f].COMM = disk[f].COMM]_vars

\* A file that had a genre, a comment and a picture reached SUCCESS with
\* comment stripping on and a resolved genre other than its old one.
C32_Witness ==
  /\ AtSuccess /\ ~opts.keep_comments
  /\ disk[cur].COMM = {} /\ disk[cur].APIC # EmptyID3.APIC
  /\ stem[cur] = StemPair
  /\ disk[cur].TCON = metadata.genre /\ metadata.genre # TaggedRich.TCON


\* ---------------------------------------------------------------------- C33
\* The pictures of container a, all still in container b and unchanged.
ArtKept(a, b) ==
  \A d \in DOMAIN a.APIC : d \in DOMAIN b.APIC /\ b.APIC[d] = a.APIC[d]

\* The art block of this step obtained an image.
ArtObtained == pc = "art" /\ (\E o \in ops' : o.op = "image") /\ ~Did("no_art")'

\* C33: the pictures a file has are removed or replaced by the enrichment
\* write only when force_album_art is set, no_album_art is not set and a new
\* image was obtained; otherwise (no_album_art, a picture without force, no
\* image from download and search) the pictures in the container and in the
\* file stay as they were.
C33_ArtKeptUnlessForced ==
  /\ [][(pc = "art" /\ ~ArtKept(audio_write, audio_write')) =>
          /\ opts.force_album_art /\ ~opts.no_album_art
          /\ ArtObtained]_vars
  /\ [][(pc = "write") => audio_write'.APIC = audio_write.APIC]_vars
  /\ [][\A f \in Files :
          ~ArtKept(disk[f], disk'[f]) =>
            /\ opts.force_album_art /\ ~opts.no_album_art
            /\ pc = "save" /\ f = cur
            /\ disk'[f].APIC = audio_write.APIC
            /\ \E d \in DOMAIN disk'[f].APIC :
                 \A e \in DOMAIN disk[f].APIC :
                   disk'[f].APIC[d] # disk[f].APIC[e]]_vars

\* Under force_album_art every download and search for a picture failed:
\* the file was saved and still has its picture "oldpic" as before.
C33_Witness ==
  /\ pc = "insert" /\ saved
  /\ opts.force_album_art /\ ~opts.no_album_art
  /\ art_added_count = 0
  /\ disk[cur].APIC = [d \in {"Front"} |-> "oldpic"]
  /\ disk[cur].TALB # None


\* ---------------------------------------------------------------------- C34
RECURSIVE SumCounts(_, _)
\* The sum of the counts of the tags at the positions I of a list.
SumCounts(I, tags) ==
  IF I = {} THEN 0
  ELSE LET n == CHOOSE m \in I : TRUE
       IN tags[n].count + SumCounts(I \ {n}, tags)

\* The positions of a tag list that count: a name that is not blank and a
\* positive count.
Counting(tags) ==
  {n \in 1..Len(tags) : Strip(tags[n].name) # <<>> /\ tags[n].count > 0}

\* The aggregate weight of canonical label c in a tag list.
LabelWeight(tags, c) ==
  SumCounts({n \in Counting(tags) :
               _normalize_genre_label(Strip(tags[n].name)) = c}, tags)

\* c is the canonical label of a counting tag, no label is heavier, and the
\* labels as heavy as c come after c in lexicographic order.
Heaviest(tags, c) ==
  /\ \E n \in Counting(tags) : _normalize_genre_label(Strip(tags[n].name)) = c
  /\ \A n \in Counting(tags) :
       LET d == _normalize_genre_label(Strip(tags[n].name)) IN
       \/ d = c
       \/ LabelWeight(tags, c) > LabelWeight(tags, d)
       \/ LabelWeight(tags, c) = LabelWeight(tags, d) /\ StrLess(c, d)

\* The list s in the order p.
Permuted(s, p) == [n \in 1..Len(s) |-> s[p[n]]]

\* The tag list both tag-cloud calls answer with in this world.
Listed == (CHOOSE o \in world.lastfm : TRUE).tags

\* The genre labels of the artists of the track, as the artist-genre cache
\* holds them after the lookup.
ListedGenres == AllGenres(OrderedIds(track_data), spotify_artist_genre_cache')

\* C34: both genre sources pick the canonical label of the highest aggregate
\* weight (tag cloud: the sum of the counts of the tags with a name and a
\* positive count; artist lookup: the number of genre labels of the ordered,
\* de-duplicated artist ids), the lexicographically smallest one among equals,
\* so that the result is the same for every order of the listing.
C34_HeaviestLabelWins ==
  /\ [][(Cardinality(world.lastfm) = 1 /\ pc = "genre" /\ opts.lastfm_key
          /\ Counting(Listed) # {}) =>
          /\ pc' = "analysis"
          /\ Heaviest(Listed, metadata'.genre)
          /\ \A p \in Permutations(1..Len(Listed)) :
               LET o == [kind |-> "ok", tags |-> Permuted(Listed, p)] IN
               get_genre_from_lastfm(TRUE, PrimaryArtist(track_data),
                                     track_data.name, EmptyMap, o, o).genre
                 = metadata'.genre]_vars
  /\ [][(pc = "genre_artists" /\ ListedGenres # <<>>) =>
          /\ pc' = "analysis"
          /\ Heaviest(Unit(ListedGenres), metadata'.genre)
          /\ \A p \in Permutations(1..Len(ListedGenres)) :
               TopLabel(Unit(Permuted(ListedGenres, p))) = metadata'.genre]_vars

\* The tag cloud listed "shoegaze" (5) before "trap" (3) and "rap" (2): the
\* two labels weigh 5 each and the genre is Hip-Hop, the smaller label.
C34_Witness ==
  /\ pc = "analysis" /\ Did("lastfm")
  /\ Len(Listed) = 3 /\ Listed[1].name = Shoegaze
  /\ LabelWeight(Listed, _normalize_genre_label(Shoegaze)) = 5
  /\ LabelWeight(Listed, _normalize_genre_label(Trap)) = 5
  /\ metadata.genre = _normalize_genre_label(Trap)


\* ---------------------------------------------------------------------- C35
\* C35: a file for which neither the tags nor the filename split give both an
\* artist and a title is marked SKIPPED only after the search fallback was
\* attempted for it, a stem with " - " and an empty side included.
C35_SearchBeforeSkip ==
  [][(NewlySkipped /\ pc = "check") => search_query # None]_vars

\* A file without tags whose stem " - B" splits into an empty artist and
\* the title "B" is SKIPPED, and no search was ever looked up or sent.
C35_Witness ==
  /\ pc = "advance" /\ "SKIPPED" \in bucket[cur]
  /\ stem[cur] = StemNoArtist /\ disk[cur] = Untagged
  /\ artist = <<>> /\ title = <<"B">>
  /\ search_query = None /\ spotify_cache = EmptyMap

\* As coded: the search fallback is entered exactly when the stem has no
\* " - "; a stem with the delimiter goes to the pair test with its two
\* sides, and a pair with an empty side is skipped there without any search.
C35_FallbackOnlyWithoutDelimiter ==
  /\ [][(pc = "parse") =>
          IF Contains(stem[cur], Delim)
          THEN pc' = "check" /\ search_query' = None
          ELSE pc' \in {"clean", "isearch"} /\ search_query' = stem[cur]]_vars
  /\ [][(pc = "check" /\ PairMissing(artist, title)) =>
          /\ NewlySkipped /\ ops' = {}
          /\ UNCHANGED <<spotify_cache, raised, failed_count>>]_vars
  /\ [][(NewlySkipped /\ pc = "check") => search_query = None]_vars


\* ---------------------------------------------------------------------- C36
\* C36: a file whose tag save succeeded is in the ledger and counted as
\* SUCCESS when its processing ends: no file with persisted tags ends FAILED
\* or outside the ledger, where a later run would enrich it again.
C36_SavedFilesInLedger ==
  [][(i \in 1..Len(unprocessed) /\ saved /\ pc' = "advance") =>
       /\ cur \in Range(ledger')
       /\ bucket'[cur] = {"SUCCESS"}]_vars

\* A second run takes up a file that the first run saved (it has an album
\* frame, which no file starts with) and did not enter in the ledger.
C36_Witness ==
  /\ run = 2 /\ pc = "read" /\ attempt = 0
  /\ disk[cur].hdr /\ disk[cur].TALB # None
  /\ cur \notin Range(ledger)

\* As coded: the ledger insert follows the save in the same try block; an
\* insert that raises goes to the handler with the tags already in the
\* file, and that is the only way a saved file ends outside the ledger.
C36_FailedInsertAfterSave ==
  /\ [][(pc = "insert" /\ pc' = "except") =>
          /\ saved /\ disk[cur].TALB # None
          /\ UNCHANGED <<disk, ledger>>]_vars
  /\ [][(i \in 1..Len(unprocessed) /\ saved /\ pc' = "advance"
          /\ cur \notin Range(ledger')) =>
          /\ pc = "except" /\ exc = <<"d", "b">>
          /\ bucket'[cur] = {"FAILED"}]_vars


\* ---------------------------------------------------------------------- C38
\* The keyword that is the label of the one tag of this world.
WorldKeyword ==
  CHOOSE k \in AllKeywords :
    \E o \in world.lastfm :
      o.kind = "ok" /\ o.tags = <<[name |-> k, count |-> 3]>>

\* The rows of the table that list keyword k.
RowsOf(k) ==
  {r \in 1..Len(mapping) : \E n \in 1..Len(mapping[r].keys) : mapping[r].keys[n] = k}

\* The rows of the table one of whose keywords occurs in the lower-cased
\* label.
RowsIn(label) ==
  {r \in 1..Len(mapping) :
     \E n \in 1..Len(mapping[r].keys) : Contains(Lower(label), mapping[r].keys[n])}

\* C38: the normalizer returns the canonical name of a row of its table
\* whenever the lower-cased label contains a keyword of the table, and a
\* keyword of a row is normalized to the canonical name of that row: a genre
\* resolved from a single tag whose label is a keyword is the canonical name
\* of the keyword's row.
C38_KeywordGivesItsRow ==
  (pc = "analysis" /\ Did("lastfm") /\ PositiveLastfm) =>
     /\ \E r \in RowsIn(WorldKeyword) : metadata.genre = mapping[r].canonical
     /\ \A r \in RowsOf(WorldKeyword) : metadata.genre = mapping[r].canonical

\* The tag "k-pop", a keyword of the row K-Pop, was resolved to the genre
\* "Pop".
C38_Witness ==
  /\ pc = "analysis" /\ Did("lastfm") /\ PositiveLastfm
  /\ WorldKeyword = <<"k", "-", "p", "o", "p">>
  /\ metadata.genre = <<"P", "o", "p">>

\* As coded: the first row of the table with a keyword in the label wins.
\* The keywords of K-Pop and J-Pop contain "pop", a keyword of the earlier
\* row Pop, and are the only keywords that do not give their own row.
C38_FirstRowWins ==
  (pc = "analysis" /\ Did("lastfm") /\ PositiveLastfm) =>
     LET first == CHOOSE r \in RowsIn(WorldKeyword) :
                    \A q \in RowsIn(WorldKeyword) : r <= q
     IN /\ metadata.genre = mapping[first].canonical
        /\ Cardinality(RowsOf(WorldKeyword)) = 1
        /\ (first \notin RowsOf(WorldKeyword)) <=>
             WorldKeyword \in { <<"k", "-", "p", "o", "p">>, <<"k", "p", "o", "p">>,
                                <<"j", "-", "p", "o", "p">>, <<"j", "p", "o", "p">> }


\* ---------------------------------------------------------------------- C31
\* The fields of container a, whatever its header.
Fields(a) == [a EXCEPT !.hdr = FALSE]

\* Container a holds the artist and title frames of container b and no
\* other field.
KeepsBasics(a, b) ==
  Fields(a) = [EmptyID3 EXCEPT !.TPE1 = b.TPE1, !.TIT2 = b.TIT2]

\* C31: in keep_basics mode every file counted as stripped ends with exactly
\* the artist and title fields it had before the operation and no other
\* field, also after a failed first attempt; in full mode every file counted
\* as stripped ends with no field.
C31_StripLeavesBasics ==
  \A f \in Files :
    "STRIPPED" \in bucket[f] =>
      IF mode = "keep_basics"
      THEN KeepsBasics(disk[f], disk0[f])
      ELSE Fields(disk[f]) = EmptyID3

\* In keep_basics mode a file that had an artist and a title is counted as
\* stripped after one failed attempt, and has neither frame any more.
C31_Witness ==
  /\ mode = "keep_basics" /\ pc = "strip_next"
  /\ "STRIPPED" \in bucket[cur] /\ raised = 1
  /\ disk0[cur] = TaggedRich
  /\ disk[cur].TPE1 = None /\ disk[cur].TIT2 = None

\* As coded: a file counted after its save has the fields the mode asks
\* for; a file counted because it has no header has no field at all, which
\* in keep_basics mode is the case after a save that raised, since the
\* delete before it had emptied the file.
C31_StripAsCoded ==
  /\ [](mode = "all" =>
          \A f \in Files : "STRIPPED" \in bucket[f] => Fields(disk[f]) = EmptyID3)
  /\ [][(pc = "strip_save" /\ pc' = "strip_next") =>
          IF mode = "keep_basics"
          THEN KeepsBasics(disk'[cur], disk0[cur])
          ELSE Fields(disk'[cur]) = EmptyID3]_vars
  /\ [][(pc = "strip_load" /\ pc' = "strip_next") =>
          /\ disk' = disk /\ Fields(disk[cur]) = EmptyID3
          /\ (disk0[cur].hdr => raised = 1)]_vars
  /\ [][(pc = "strip_save" /\ pc' = "strip_except") =>
          disk'[cur] = EmptyID3]_vars

\* The four counters of the art-only summary, added up.
ArtOnlyCounted ==
  success_count + already_had_art + no_metadata_count + failed_count

\* The file the art-only loop is on has a picture, or lacks artist or title.
ArtOnlyPassedOver ==
  /\ i \in 1..Len(unprocessed)
  /\ \/ DOMAIN disk0[unprocessed[i]].APIC # {}
     \/ ~Truthy(disk0[unprocessed[i]].TPE1)
     \/ ~Truthy(disk0[unprocessed[i]].TIT2)

\* The remote calls of the art-only mode.
ArtOnlyRemote ==
  Did("art_search") \/ Did("image") \/ Did("genius")

\* C37: in the art-only mode every file is counted in exactly one of the
\* buckets 'art added', 'already had art', 'no metadata' and 'failed',
\* whatever its two attempts meet: a file never falls into two buckets, the
\* four counters add up to the number of files when the run is done; and a
\* file that has a picture or lacks artist or title is never saved or
\* modified and triggers no remote call.
C37_OneBucketPerFile ==
  /\ [](mode = "art_only" =>
         /\ \A f \in DOMAIN bucket : Cardinality(bucket[f]) <= 1
         /\ (pc = "done" =>
               /\ ArtOnlyCounted = Len(unprocessed)
               /\ \A f \in DOMAIN bucket : Cardinality(bucket[f]) = 1))
  /\ [][(mode = "art_only" /\ ArtOnlyPassedOver) =>
          (disk' = disk /\ ~ArtOnlyRemote')]_vars

\* C37, its case: a file whose picture was obtained and counted in the
\* first attempt, whose save raised, and which the second attempt counts
\* again, so that one file stands twice in the summary.
C37_Witness ==
  /\ mode = "art_only" /\ pc = "done"
  /\ bucket[1] = {"ART_ADDED"} /\ DOMAIN disk[1].APIC = {"Cover"}
  /\ \A f \in DOMAIN bucket \ {1} : bucket[f] = {"HAD_ART"}
  /\ success_count = 2
  /\ ArtOnlyCounted = Len(unprocessed) + 1

\* C37, as coded: success_count goes up when the picture is added, before
\* the save; a file is counted at least once and at most three times (a
\* picture in each attempt and a failure after the second save), more than
\* once only as 'art added' and then 'failed' or 'art added' again; files with a
\* picture or without artist or title are counted once, never written and
\* never searched for.
C37_CountedBeforeSave ==
  /\ [](mode = "art_only" =>
         /\ \A f \in DOMAIN bucket :
              Cardinality(bucket[f]) = 2 => bucket[f] = {"ART_ADDED", "FAILED"}
         /\ (pc = "done" =>
               /\ ArtOnlyCounted >= Len(unprocessed)
               /\ ArtOnlyCounted <= 3 * Len(unprocessed)
               /\ \A f \in DOMAIN bucket :
                    /\ bucket[f] # {}
                    /\ (bucket[f] \cap {"HAD_ART", "NO_METADATA"} # {}
                          => Cardinality(bucket[f]) = 1)))
  /\ [][(mode = "art_only" /\ success_count' # success_count
           /\ pc # "idle") =>
          (pc = "art_fetch" /\ disk' = disk)]_vars
  /\ [][(mode = "art_only" /\ ArtOnlyPassedOver) =>
          (disk' = disk /\ ~ArtOnlyRemote')]_vars

=============================================================================
